---- MODULE Spec2Model ----
(***************************************************************************)
(* Model of the MuKa farm classification rule engine                      *)
(* (muka_analysis/classifier.py, muka_analysis/models.py,                  *)
(* muka_analysis/config.py).                                               *)
(*                                                                         *)
(* Naming: the specification speaks of "classify", "six-strict",           *)
(* "Mother-Cow", "InvalidConfiguration"; the code calls them               *)
(* classify_farm, "6-indicators", "Muku", ValueError.  The model keeps     *)
(* the code's names.                                                       *)
(***************************************************************************)
EXTENDS Integers, Sequences, FiniteSets, TLC

VARIABLES
    classifier,   \* the FarmClassifier object in use, or NoClassifier
    config,       \* the global AppConfig singleton (classification section)
    farm,         \* the FarmData record under classification
    op,           \* the last operation that ran and its mode argument
    result,       \* return value of the last classify_farm call
    raised,       \* exception raised by the last operation, or NoError
    log,          \* severity of the record-level log line of the last classify_farm
    counts,       \* the tallies of the last classify_farms pass
    memo,         \* an earlier classify_farm call on the same indicator vector
    farms,        \* the list of FarmData records of the batch job
    analyzer,     \* the FarmAnalyzer object the last aggregator call built
    output,       \* the value the last aggregator or session call returned
    session,      \* the DataContext object of the tool-calling server
    chain         \* the DataFilter a filter was called on, before and after, and the one returned

vars == <<classifier, config, farm, op, result, raised, log, counts, memo, farms, analyzer, output,
         session, chain>>

\* the record list and the aggregator's results
aggVars == <<farms, analyzer, output>>

\* the single record, the remembered call and the per-record results
singleVars == <<farm, memo, result, log>>

----------------------------------------------------------------------------
(* models.py *)

\* Optional[int] = None: "matches any value"
None == -1

\* Optional[FarmGroup] = None: not classified
NoGroup == "None"

\* class IndicatorMode(str, Enum), in definition order
IndicatorMode ==
    << "6-indicators", "6-indicators-flex", "4-indicators",
       "5-indicators", "5-indicators-flex" >>

SIX_INDICATORS == IndicatorMode[1]
SIX_INDICATORS_FLEX == IndicatorMode[2]
FOUR_INDICATORS == IndicatorMode[3]
FIVE_INDICATORS == IndicatorMode[4]
FIVE_INDICATORS_FLEX == IndicatorMode[5]

\* class FarmGroup(str, Enum), in definition order
FarmGroup == << "Muku", "Muku_Amme", "Milchvieh", "BKMmZ", "BKMoZ", "IKM" >>

MUKU == FarmGroup[1]
MUKU_AMME == FarmGroup[2]
MILCHVIEH == FarmGroup[3]
BKMMZ == FarmGroup[4]
BKMOZ == FarmGroup[5]
IKM == FarmGroup[6]

Range(s) == { s[i] : i \in DOMAIN s }

\* GroupProfile(group_name=..., female_dairy_cattle=..., ...)
GroupProfile(g, fdc, fc, ca, cnsl, fs, ys) ==
    [ group_name |-> g,
      female_dairy_cattle |-> fdc,
      female_cattle |-> fc,
      calf_arrivals |-> ca,
      calf_non_slaughter_leavings |-> cnsl,
      female_slaughterings |-> fs,
      young_slaughterings |-> ys ]

\* A variant of matches that compares slot 6 without honouring None.
matches_strict(self, female_dairy, female_cattle, calf_arrivals, calf_leavings, female_slaughter, young_slaughter) ==
    /\ self.female_dairy_cattle = female_dairy
    /\ self.female_cattle = female_cattle
    /\ self.calf_arrivals = calf_arrivals
    /\ self.calf_non_slaughter_leavings = calf_leavings
    /\ (self.female_slaughterings = None
          \/ self.female_slaughterings = female_slaughter)
    /\ self.young_slaughterings = young_slaughter

\* GroupProfile.matches
matches(self, female_dairy, female_cattle, calf_arrivals, calf_leavings, female_slaughter, young_slaughter) ==
    /\ self.female_dairy_cattle = female_dairy
    /\ self.female_cattle = female_cattle
    /\ self.calf_arrivals = calf_arrivals
    /\ self.calf_non_slaughter_leavings = calf_leavings
    /\ (self.female_slaughterings = None
          \/ self.female_slaughterings = female_slaughter)
    /\ (self.young_slaughterings = None
          \/ self.young_slaughterings = young_slaughter)

\* FarmData(...) as the ingestion layer builds it: the six indicators are
\* given, group defaults to None.
FarmData(i1, i2, i3, i4, i5, i6) ==
    [ indicator_female_dairy_cattle_v2 |-> i1,
      indicator_female_cattle |-> i2,
      indicator_calf_arrivals |-> i3,
      indicator_calf_leavings |-> i4,
      indicator_female_slaughterings |-> i5,
      indicator_young_slaughterings |-> i6,
      group |-> NoGroup ]

----------------------------------------------------------------------------
(* classifier.py: FarmClassifier._create_profiles, one definition per branch *)

\* A 6-indicators table whose Milchvieh row leaves slot 6 open.
profiles_SIX_INDICATORS_open ==
    << GroupProfile(MUKU,      0, 0, 0, 0, 0, 1),
       GroupProfile(MUKU_AMME, 0, 0, 1, 0, 0, 1),
       GroupProfile(MILCHVIEH, 1, 0, 0, 1, 0, None),
       GroupProfile(BKMMZ,     1, 0, 1, 0, 0, 1),
       GroupProfile(BKMOZ,     1, 0, 0, 0, 0, 1),
       GroupProfile(IKM,       0, 1, 1, 0, 0, 1) >>

\* A 6-indicators table whose Muku row expects female slaughterings.
profiles_SIX_INDICATORS_slot5 ==
    << GroupProfile(MUKU,      0, 0, 0, 0, 1, 1),
       GroupProfile(MUKU_AMME, 0, 0, 1, 0, 0, 1),
       GroupProfile(MILCHVIEH, 1, 0, 0, 1, 0, 0),
       GroupProfile(BKMMZ,     1, 0, 1, 0, 0, 1),
       GroupProfile(BKMOZ,     1, 0, 0, 0, 0, 1),
       GroupProfile(IKM,       0, 1, 1, 0, 0, 1) >>

\* if indicator_mode == IndicatorMode.SIX_INDICATORS
profiles_SIX_INDICATORS ==
    << GroupProfile(MUKU,      0, 0, 0, 0, 0, 1),
       GroupProfile(MUKU_AMME, 0, 0, 1, 0, 0, 1),
       GroupProfile(MILCHVIEH, 1, 0, 0, 1, 0, 0),
       GroupProfile(BKMMZ,     1, 0, 1, 0, 0, 1),
       GroupProfile(BKMOZ,     1, 0, 0, 0, 0, 1),
       GroupProfile(IKM,       0, 1, 1, 0, 0, 1) >>

\* A 6-indicators-flex table that lists BKMoZ before BKMmZ.
profiles_SIX_INDICATORS_FLEX_swapped ==
    << GroupProfile(MUKU,      0, 0, 0, 0, 0, 1),
       GroupProfile(MUKU_AMME, 0, 0, 1, 0, 0, 1),
       GroupProfile(MILCHVIEH, 1, 0, 0, 1, 0, None),
       GroupProfile(BKMOZ,     1, 0, 0, 0, 0, 1),
       GroupProfile(BKMMZ,     1, 0, 1, 0, 0, 1),
       GroupProfile(IKM,       0, 1, 1, 0, 0, 1) >>

\* A 6-indicators-flex table whose Milchvieh row also leaves slot 5 open.
profiles_SIX_INDICATORS_FLEX_slot5 ==
    << GroupProfile(MUKU,      0, 0, 0, 0, 0, 1),
       GroupProfile(MUKU_AMME, 0, 0, 1, 0, 0, 1),
       GroupProfile(MILCHVIEH, 1, 0, 0, 1, None, None),
       GroupProfile(BKMMZ,     1, 0, 1, 0, 0, 1),
       GroupProfile(BKMOZ,     1, 0, 0, 0, 0, 1),
       GroupProfile(IKM,       0, 1, 1, 0, 0, 1) >>

\* elif indicator_mode == IndicatorMode.SIX_INDICATORS_FLEX
profiles_SIX_INDICATORS_FLEX ==
    << GroupProfile(MUKU,      0, 0, 0, 0, 0, 1),
       GroupProfile(MUKU_AMME, 0, 0, 1, 0, 0, 1),
       GroupProfile(MILCHVIEH, 1, 0, 0, 1, 0, None),
       GroupProfile(BKMMZ,     1, 0, 1, 0, 0, 1),
       GroupProfile(BKMOZ,     1, 0, 0, 0, 0, 1),
       GroupProfile(IKM,       0, 1, 1, 0, 0, 1) >>

\* A 4-indicators table that keeps slot 6 of the 5-indicators-flex table.
profiles_FOUR_INDICATORS_slot6 ==
    << GroupProfile(MUKU,      0, 0, 0, 0, None, 1),
       GroupProfile(MUKU_AMME, 0, 0, 1, 0, None, 1),
       GroupProfile(MILCHVIEH, 1, 0, 0, 1, None, None),
       GroupProfile(BKMMZ,     1, 0, 1, 0, None, 1),
       GroupProfile(BKMOZ,     1, 0, 0, 0, None, 1),
       GroupProfile(IKM,       0, 1, 1, 0, None, 1) >>

\* A 4-indicators table whose Milchvieh row does not ask for calf leavings.
profiles_FOUR_INDICATORS_prefix ==
    << GroupProfile(MUKU,      0, 0, 0, 0, None, None),
       GroupProfile(MUKU_AMME, 0, 0, 1, 0, None, None),
       GroupProfile(MILCHVIEH, 1, 0, 0, 0, None, None),
       GroupProfile(BKMMZ,     1, 0, 1, 0, None, None),
       GroupProfile(BKMOZ,     1, 0, 0, 0, None, None),
       GroupProfile(IKM,       0, 1, 1, 0, None, None) >>

\* elif indicator_mode == IndicatorMode.FOUR_INDICATORS
profiles_FOUR_INDICATORS ==
    << GroupProfile(MUKU,      0, 0, 0, 0, None, None),
       GroupProfile(MUKU_AMME, 0, 0, 1, 0, None, None),
       GroupProfile(MILCHVIEH, 1, 0, 0, 1, None, None),
       GroupProfile(BKMMZ,     1, 0, 1, 0, None, None),
       GroupProfile(BKMOZ,     1, 0, 0, 0, None, None),
       GroupProfile(IKM,       0, 1, 1, 0, None, None) >>

\* A 5-indicators table whose IKM row does not ask for other female cattle.
profiles_FIVE_INDICATORS_prefix ==
    << GroupProfile(MUKU,      0, 0, 0, 0, None, 1),
       GroupProfile(MUKU_AMME, 0, 0, 1, 0, None, 1),
       GroupProfile(MILCHVIEH, 1, 0, 0, 1, None, 0),
       GroupProfile(BKMMZ,     1, 0, 1, 0, None, 1),
       GroupProfile(BKMOZ,     1, 0, 0, 0, None, 1),
       GroupProfile(IKM,       0, 0, 1, 0, None, 1) >>

\* elif indicator_mode == IndicatorMode.FIVE_INDICATORS
profiles_FIVE_INDICATORS ==
    << GroupProfile(MUKU,      0, 0, 0, 0, None, 1),
       GroupProfile(MUKU_AMME, 0, 0, 1, 0, None, 1),
       GroupProfile(MILCHVIEH, 1, 0, 0, 1, None, 0),
       GroupProfile(BKMMZ,     1, 0, 1, 0, None, 1),
       GroupProfile(BKMOZ,     1, 0, 0, 0, None, 1),
       GroupProfile(IKM,       0, 1, 1, 0, None, 1) >>

\* A 5-indicators-flex table whose Milchvieh row fixes slot 6 to 1.
profiles_FIVE_INDICATORS_FLEX_fixed ==
    << GroupProfile(MUKU,      0, 0, 0, 0, None, 1),
       GroupProfile(MUKU_AMME, 0, 0, 1, 0, None, 1),
       GroupProfile(MILCHVIEH, 1, 0, 0, 1, None, 1),
       GroupProfile(BKMMZ,     1, 0, 1, 0, None, 1),
       GroupProfile(BKMOZ,     1, 0, 0, 0, None, 1),
       GroupProfile(IKM,       0, 1, 1, 0, None, 1) >>

\* A 5-indicators-flex table whose BKMoZ row asks for no young slaughterings.
profiles_FIVE_INDICATORS_FLEX_narrow ==
    << GroupProfile(MUKU,      0, 0, 0, 0, None, 1),
       GroupProfile(MUKU_AMME, 0, 0, 1, 0, None, 1),
       GroupProfile(MILCHVIEH, 1, 0, 0, 1, None, None),
       GroupProfile(BKMMZ,     1, 0, 1, 0, None, 1),
       GroupProfile(BKMOZ,     1, 0, 0, 0, None, 0),
       GroupProfile(IKM,       0, 1, 1, 0, None, 1) >>

\* elif indicator_mode == IndicatorMode.FIVE_INDICATORS_FLEX
profiles_FIVE_INDICATORS_FLEX ==
    << GroupProfile(MUKU,      0, 0, 0, 0, None, 1),
       GroupProfile(MUKU_AMME, 0, 0, 1, 0, None, 1),
       GroupProfile(MILCHVIEH, 1, 0, 0, 1, None, None),
       GroupProfile(BKMMZ,     1, 0, 1, 0, None, 1),
       GroupProfile(BKMOZ,     1, 0, 0, 0, None, 1),
       GroupProfile(IKM,       0, 1, 1, 0, None, 1) >>

\* FarmClassifier._create_profiles(indicator_mode); the final else branch
\* (raise ValueError) is entered only for a value outside the enum.
create_profiles(indicator_mode) ==
    IF indicator_mode = SIX_INDICATORS THEN profiles_SIX_INDICATORS
    ELSE IF indicator_mode = SIX_INDICATORS_FLEX THEN profiles_SIX_INDICATORS_FLEX
    ELSE IF indicator_mode = FOUR_INDICATORS THEN profiles_FOUR_INDICATORS
    ELSE IF indicator_mode = FIVE_INDICATORS THEN profiles_FIVE_INDICATORS
    ELSE IF indicator_mode = FIVE_INDICATORS_FLEX THEN profiles_FIVE_INDICATORS_FLEX
    ELSE << >>

----------------------------------------------------------------------------
(* config.py: the classification section of the AppConfig singleton *)

\* ClassificationConfig(): indicator_mode and show_unclassified_warnings defaults
DefaultConfig == [ indicator_mode |-> "6-indicators", show_unclassified_warnings |-> FALSE ]

----------------------------------------------------------------------------
(* classifier.py: FarmClassifier *)

\* indicator_mode: Optional[str] = None
NoMode == "None"

NoClassifier == [ indicator_mode |-> NoMode, profiles |-> << >> ]

NoError == [ type |-> "None", mode |-> NoMode, valid_modes |-> << >> ]

\* A constructor that falls back to the default mode instead of raising.
FarmClassifier_fallback(indicator_mode, cfg) ==
    LET m == IF indicator_mode = NoMode THEN cfg.indicator_mode ELSE indicator_mode
        e == IF m \in Range(IndicatorMode) THEN m ELSE DefaultConfig.indicator_mode
    IN  [ self |-> [ indicator_mode |-> e, profiles |-> create_profiles(e) ],
          raised |-> NoError ]

\* FarmClassifier.__init__(indicator_mode): the object built and the
\* exception raised.  IndicatorMode(indicator_mode) raises ValueError for a
\* string that is no member value; __init__ re-raises ValueError with the
\* list of valid modes and no object is returned.
FarmClassifier(indicator_mode, cfg) ==
    LET m == IF indicator_mode = NoMode THEN cfg.indicator_mode ELSE indicator_mode
    IN  IF m \in Range(IndicatorMode)
        THEN [ self |-> [ indicator_mode |-> m, profiles |-> create_profiles(m) ],
               raised |-> NoError ]
        ELSE [ self |-> NoClassifier,
               raised |-> [ type |-> "ValueError", mode |-> m,
                            valid_modes |-> IndicatorMode ] ]

\* for profile in self.profiles: if profile.matches(...): return profile.group_name
RECURSIVE first_match(_, _, _)
first_match(profiles, f, i) ==
    IF i > Len(profiles) THEN NoGroup
    ELSE IF matches(profiles[i], f.indicator_female_dairy_cattle_v2, f.indicator_female_cattle, f.indicator_calf_arrivals, f.indicator_calf_leavings, f.indicator_female_slaughterings, f.indicator_young_slaughterings)
         THEN profiles[i].group_name
         ELSE first_match(profiles, f, i + 1)

\* A classify_farm that keeps the group a farm already carries.
classify_farm_cached(self, f, cfg) ==
    LET g == IF f.group # NoGroup THEN f.group ELSE first_match(self.profiles, f, 1)
    IN  [ result |-> g,
          log |-> IF g # NoGroup THEN "debug"
                  ELSE IF cfg.show_unclassified_warnings THEN "warning" ELSE "debug" ]

\* FarmClassifier.classify_farm(farm): the value returned and the severity
\* of the log line written for the record.
classify_farm(self, f, cfg) ==
    LET g == first_match(self.profiles, f, 1)
    IN  [ result |-> g,
          log |-> IF g # NoGroup THEN "debug"
                  ELSE IF cfg.show_unclassified_warnings THEN "warning" ELSE "debug" ]

\* A classify_farms loop that leaves a record alone once it has a category.
RECURSIVE classify_farms_keep(_, _, _, _, _, _)
classify_farms_keep(self, farm_list, cfg, i, classified_count, unclassified_count) ==
    IF i > Len(farm_list)
    THEN [ farms |-> farm_list, classified_count |-> classified_count,
           unclassified_count |-> unclassified_count ]
    ELSE LET group == IF farm_list[i].group # NoGroup THEN farm_list[i].group
                      ELSE classify_farm(self, farm_list[i], cfg).result
         IN  classify_farms_keep(self, [farm_list EXCEPT ![i].group = group], cfg, i + 1,
                 IF group # NoGroup THEN classified_count + 1 ELSE classified_count,
                 IF group # NoGroup THEN unclassified_count ELSE unclassified_count + 1)

\* A classify_farms loop that gives up at the first record no profile accepts.
RECURSIVE classify_farms_stop(_, _, _, _, _, _)
classify_farms_stop(self, farm_list, cfg, i, classified_count, unclassified_count) ==
    IF i > Len(farm_list)
    THEN [ farms |-> farm_list, classified_count |-> classified_count,
           unclassified_count |-> unclassified_count ]
    ELSE LET group == classify_farm(self, farm_list[i], cfg).result
         IN  IF group = NoGroup
             THEN [ farms |-> [farm_list EXCEPT ![i].group = group],
                    classified_count |-> classified_count,
                    unclassified_count |-> unclassified_count + 1 ]
             ELSE classify_farms_stop(self, [farm_list EXCEPT ![i].group = group], cfg, i + 1,
                      classified_count + 1, unclassified_count)

\* FarmClassifier.classify_farms(farms): the loop from farm number i on,
\* carrying the two counters.
RECURSIVE classify_farms_from(_, _, _, _, _, _)
classify_farms_from(self, farm_list, cfg, i, classified_count, unclassified_count) ==
    IF i > Len(farm_list)
    THEN [ farms |-> farm_list, classified_count |-> classified_count,
           unclassified_count |-> unclassified_count ]
    ELSE LET group == classify_farm(self, farm_list[i], cfg).result
         IN  classify_farms_from(self, [farm_list EXCEPT ![i].group = group], cfg, i + 1,
                 IF group # NoGroup THEN classified_count + 1 ELSE classified_count,
                 IF group # NoGroup THEN unclassified_count ELSE unclassified_count + 1)

\* FarmClassifier.classify_farms(farms)
classify_farms(self, farm_list, cfg) == classify_farms_from(self, farm_list, cfg, 1, 0, 0)

\* A visit in which a record no profile accepts takes the category of the
\* record visited before it.
RECURSIVE classify_in_order_carry(_, _, _, _, _)
classify_in_order_carry(self, farm_list, cfg, order, k) ==
    IF k > Len(order) THEN farm_list
    ELSE LET own == classify_farm(self, farm_list[order[k]], cfg).result
             group == IF own = NoGroup /\ k > 1 THEN farm_list[order[k - 1]].group ELSE own
         IN  classify_in_order_carry(self, [farm_list EXCEPT ![order[k]].group = group], cfg, order, k + 1)

\* The body of the classify_farms loop (group = self.classify_farm(farm);
\* farm.group = group) run on the records in the visiting order given,
\* from the k-th visit on.
RECURSIVE classify_in_order(_, _, _, _, _)
classify_in_order(self, farm_list, cfg, order, k) ==
    IF k > Len(order) THEN farm_list
    ELSE LET group == classify_farm(self, farm_list[order[k]], cfg).result
         IN  classify_in_order(self, [farm_list EXCEPT ![order[k]].group = group], cfg, order, k + 1)

\* FarmClassifier.get_profile_for_group(group)
NoProfile == [ group_name |-> NoGroup ]

get_profile_for_group(self, group) ==
    LET found == { i \in DOMAIN self.profiles : self.profiles[i].group_name = group }
    IN  IF found = {} THEN NoProfile
        ELSE self.profiles[CHOOSE i \in found : \A j \in found : i <= j]

\* A get_all_profiles that hands out the classifier's own list.
get_all_profiles_alias(self) == [ value |-> self.profiles, shared |-> TRUE ]

\* FarmClassifier.get_all_profiles(): the list returned, and whether it is
\* the list object the classifier holds
get_all_profiles(self) == [ value |-> self.profiles, shared |-> FALSE ]

----------------------------------------------------------------------------
(* models.py / io_utils.py: the full FarmData record *)

\* the numeric fields FarmData declares
DeclaredNumericFields ==
    { "n_animals_total", "n_females_age3_dairy", "n_days_female_age3_dairy",
      "prop_days_female_age3_dairy", "n_females_age3_total",
      "n_total_entries_younger85", "n_total_leavings_younger51",
      "n_females_younger731", "prop_females_slaughterings_younger731",
      "n_animals_from51_to730" }

\* IOUtils.dataframe_to_farm_data: farm = FarmData(tvd=..., ...).  The
\* keyword arguments n_days_female_age3_double,
\* n_days_female_age3_dairydouble_V2 and animalyear_days_female_age3_* name
\* no field of FarmData; the model class has no extra-field setting, so
\* they are dropped and the record carries the declared fields only.
ParsedFarm(tvd, n_animals_total, i1, i2, i3, i4, i5, i6) ==
    FarmData(i1, i2, i3, i4, i5, i6)
      @@ [ tvd |-> tvd, farm_type_name |-> "farm", year |-> 2020 ]
      @@ [ f \in DeclaredNumericFields |-> IF f = "n_animals_total" THEN n_animals_total ELSE 0 ]

----------------------------------------------------------------------------
(* analyzer.py: FarmAnalyzer *)

\* FarmAnalyzer.NUMERIC_FIELDS
NUMERIC_FIELDS ==
    << "n_animals_total", "n_females_age3_dairy", "n_days_female_age3_dairy",
       "n_days_female_age3_double", "n_days_female_age3_dairydouble_V2",
       "animalyear_days_female_age3_dairy", "animalyear_days_female_age3_double",
       "animalyear_days_female_age3_dairydouble_V2", "prop_days_female_age3_dairy",
       "n_females_age3_total", "n_total_entries_younger85",
       "n_total_leavings_younger51", "n_females_younger731",
       "prop_females_slaughterings_younger731", "n_animals_from51_to730" >>

\* the attributes of a farm that _create_dataframe reads, in reading order
DataFrameAttributes ==
    << "tvd", "year",
       "indicator_female_dairy_cattle_v2", "indicator_female_cattle",
       "indicator_calf_arrivals", "indicator_calf_leavings",
       "indicator_female_slaughterings", "indicator_young_slaughterings",
       "group" >> \o NUMERIC_FIELDS

NoAttribute == "None"

Minimum(S) == CHOOSE x \in S : \A y \in S : x <= y
Maximum(S) == CHOOSE x \in S : \A y \in S : y <= x

----------------------------------------------------------------------------
(* str ordering and float64 arithmetic, as Python, numpy and pandas apply them *)

\* the printable ASCII characters in code point order, from the space on;
\* a tab stands in the place of the backquote
CodePoints ==
    " !\"#$%&'()*+,-./0123456789:;<=>?@ABCDEFGHIJKLMNOPQRSTUVWXYZ[\\]^_\tabcdefghijklmnopqrstuvwxyz{|}~"

\* ord(c) - 31 of a one-character string
ord(c) == CHOOSE k \in 1..Len(CodePoints) : SubSeq(CodePoints, k, k) = c

\* a < b of two str objects: by the first code point that differs, a proper
\* prefix first
RECURSIVE str_less(_, _)
str_less(a, b) ==
    IF b = "" THEN FALSE
    ELSE IF a = "" THEN TRUE
    ELSE IF Head(a) = Head(b) THEN str_less(Tail(a), Tail(b))
    ELSE ord(SubSeq(a, 1, 1)) < ord(SubSeq(b, 1, 1))

\* sorted(S) of a set of str objects
RECURSIVE sorted_strings(_)
sorted_strings(S) ==
    IF S = {} THEN << >>
    ELSE LET x == CHOOSE x \in S : \A y \in S \ {x} : str_less(x, y)
         IN  << x >> \o sorted_strings(S \ {x})

\* str.lower()
RECURSIVE lower(_)
lower(s) ==
    IF s = "" THEN ""
    ELSE LET k == ord(SubSeq(s, 1, 1))
             c == IF k >= ord("A") /\ k <= ord("Z")
                  THEN SubSeq(CodePoints, k + 32, k + 32)
                  ELSE SubSeq(s, 1, 1)
         IN  c \o lower(Tail(s))

\* A finite non-negative float64 is the set of the exponents of its binary
\* digits: {2, 0, -1} is 5.5.  Every normal float64 has at most 53 digits
\* from its highest one down.
bit(x, e) == IF e \in x THEN 1 ELSE 0

\* float(n) of an int n >= 0
RECURSIVE float_from(_, _)
float_from(n, e) ==
    IF n = 0 THEN {}
    ELSE (IF n % 2 = 1 THEN {e} ELSE {}) \cup float_from(n \div 2, e + 1)

float(n) == float_from(n, 0)

\* int(x): the integer part
RECURSIVE int(_)
int(x) ==
    LET whole == { e \in x : e >= 0 }
    IN  IF whole = {} THEN 0
        ELSE LET e == Maximum(whole) IN 2 ^ e + int(x \ {e})

\* x - floor(x)
frac_part(x) == { e \in x : e < 0 }

\* x < y
float_less(x, y) ==
    LET D == (x \ y) \cup (y \ x)
    IN  D # {} /\ Maximum(D) \in y

\* the exact sum x + y
RECURSIVE add_from(_, _, _, _, _)
add_from(x, y, e, hi, carry) ==
    IF e > hi THEN (IF carry = 1 THEN {e} ELSE {})
    ELSE LET t == bit(x, e) + bit(y, e) + carry
         IN  (IF t % 2 = 1 THEN {e} ELSE {}) \cup add_from(x, y, e + 1, hi, t \div 2)

exact_add(x, y) ==
    IF x \cup y = {} THEN {}
    ELSE add_from(x, y, Minimum(x \cup y), Maximum(x \cup y), 0)

\* the exact difference x - y, for x >= y
RECURSIVE sub_from(_, _, _, _, _)
sub_from(x, y, e, hi, borrow) ==
    IF e > hi THEN {}
    ELSE LET t == bit(x, e) - bit(y, e) - borrow
         IN  (IF (t + 2) % 2 = 1 THEN {e} ELSE {})
                \cup sub_from(x, y, e + 1, hi, IF t < 0 THEN 1 ELSE 0)

exact_sub(x, y) ==
    IF x \cup y = {} THEN {}
    ELSE sub_from(x, y, Minimum(x \cup y), Maximum(x \cup y), 0)

\* the exact product of x and an int c >= 0
RECURSIVE mul_from(_, _, _, _, _)
mul_from(x, c, e, hi, carry) ==
    IF e > hi /\ carry = 0 THEN {}
    ELSE LET t == bit(x, e) * c + carry
         IN  (IF t % 2 = 1 THEN {e} ELSE {}) \cup mul_from(x, c, e + 1, hi, t \div 2)

exact_mul(x, c) == IF x = {} THEN {} ELSE mul_from(x, c, Minimum(x), Maximum(x), 0)

\* the quotient of x by an int 0 < c < 2^22, eight binary digits at a
\* time from the highest one: the digits found down to at least the 55th
\* after the first non-zero one, and whether anything is left below them
RECURSIVE div_from(_, _, _, _, _)
div_from(x, c, e, rem, digits) ==
    LET more == \E k \in x : k <= e
    IN  IF (digits # {} /\ e < Maximum(digits) - 55) \/ (rem = 0 /\ ~more)
        THEN [ digits |-> digits, inexact |-> rem # 0 \/ more ]
        ELSE LET t == rem * 256 + bit(x, e) * 128 + bit(x, e - 1) * 64 + bit(x, e - 2) * 32
                        + bit(x, e - 3) * 16 + bit(x, e - 4) * 8 + bit(x, e - 5) * 4
                        + bit(x, e - 6) * 2 + bit(x, e - 7)
                 q == t \div c
             IN  div_from(x, c, e - 8, t % c,
                          digits \cup { e - 7 + k : k \in { k \in 0..7 : (q \div 2 ^ k) % 2 = 1 } })

\* round to nearest, ties to even: the float64 next to the exact value
\* whose binary digits are x, followed by something more if inexact
round53(x, inexact) ==
    IF x = {} THEN {}
    ELSE LET lsb == Maximum(x) - 52
             kept == { e \in x : e >= lsb }
             guard == (lsb - 1) \in x
             rest == inexact \/ \E e \in x : e < lsb - 1
         IN  IF guard /\ (rest \/ lsb \in x)
             THEN LET q == Minimum({ e \in lsb..(Maximum(x) + 1) : e \notin kept })
                  IN  { e \in kept : e > q } \cup {q}
             ELSE kept

\* x + y, x - y (for x >= y), x * c and x / c in float64, c an int
float_add(x, y) == round53(exact_add(x, y), FALSE)
float_sub(x, y) == round53(exact_sub(x, y), FALSE)
float_mul(x, c) == round53(exact_mul(x, c), FALSE)
float_div(x, c) ==
    IF x = {} THEN {}
    ELSE LET q == div_from(x, c, Maximum(x), 0, {}) IN round53(q.digits, q.inexact)

\* the float64 of the decimal literal k / 10^d, as Python reads it: the
\* float64 next to the exact quotient
decimal(k, ten_to_d) == float_div(float(k), ten_to_d)

\* x * 2^k
scaled(x, k) == { e + k : e \in x }

\* np.rint(x): the next integer, ties to the even one
rint(x) ==
    LET n == int(x)
    IN  IF (-1) \in x /\ ((\E e \in x : e < -1) \/ n % 2 = 1) THEN n + 1 ELSE n

----------------------------------------------------------------------------
(* analyzer.py: FarmAnalyzer, continued *)

\* the first attribute read by _create_dataframe that the farm object lacks
MissingAttribute(f) ==
    LET M == { k \in DOMAIN DataFrameAttributes : DataFrameAttributes[k] \notin DOMAIN f }
    IN  IF M = {} THEN NoAttribute ELSE DataFrameAttributes[Minimum(M)]

\* A _create_dataframe that fills a column the farm lacks with 0 and writes
\* the label "Unclassified" into the group of an unclassified farm.
create_dataframe_relabel(farm_list) ==
    [ df |-> [ i \in DOMAIN farm_list |->
                 [ c \in Range(DataFrameAttributes) |->
                     IF c \in DOMAIN farm_list[i] THEN farm_list[i][c] ELSE 0 ] ],
      raised |-> NoError,
      farms |-> [ i \in DOMAIN farm_list |->
                    IF farm_list[i].group = NoGroup
                    THEN [ farm_list[i] EXCEPT !.group = "Unclassified" ]
                    ELSE farm_list[i] ] ]

\* FarmAnalyzer._create_dataframe: the rows built, the exception raised by
\* reading an attribute the farm object does not have, and the farm list
\* as the loop leaves it.
create_dataframe(farm_list) ==
    LET bad == { i \in DOMAIN farm_list : MissingAttribute(farm_list[i]) # NoAttribute }
    IN  IF bad # {}
        THEN [ df |-> << >>,
               raised |-> [ type |-> "AttributeError",
                            attribute |-> MissingAttribute(farm_list[Minimum(bad)]) ],
               farms |-> farm_list ]
        ELSE [ df |-> [ i \in DOMAIN farm_list |->
                          [ c \in Range(DataFrameAttributes) |-> farm_list[i][c] ] ],
               raised |-> NoError,
               farms |-> farm_list ]

NoAnalyzer == [ df |-> << >> ]

\* A constructor without the guard against an empty list.
FarmAnalyzer_unguarded(farm_list) ==
    LET c == create_dataframe(farm_list)
    IN  IF c.raised # NoError
        THEN [ self |-> NoAnalyzer, raised |-> c.raised, farms |-> c.farms ]
        ELSE [ self |-> [ df |-> c.df, empty |-> farm_list = << >> ], raised |-> NoError, farms |-> c.farms ]

\* FarmAnalyzer.__init__(farms): the object built, the exception raised and
\* the farm list afterwards.
FarmAnalyzer(farm_list) ==
    IF farm_list = << >>
    THEN [ self |-> NoAnalyzer,
           raised |-> [ type |-> "ValueError",
                        message |-> "Cannot initialize analyzer with empty farms list" ],
           farms |-> farm_list ]
    ELSE LET c == create_dataframe(farm_list)
         IN  IF c.raised # NoError
             THEN [ self |-> NoAnalyzer, raised |-> c.raised, farms |-> c.farms ]
             ELSE [ self |-> [ df |-> c.df, empty |-> FALSE ], raised |-> NoError, farms |-> c.farms ]

\* number of rows of the frame whose group column is g
GroupRows(df, g) == { i \in DOMAIN df : df[i]["group"] = g }

\* FarmAnalyzer.get_group_counts
get_group_counts(self) ==
    LET present == { self.df[i]["group"] : i \in DOMAIN self.df } \ { NoGroup }
        unclassified_count == Cardinality(GroupRows(self.df, NoGroup))
        labels == present \cup (IF unclassified_count > 0 THEN { "Unclassified" } ELSE {})
    IN  [ l \in labels |-> IF l = "Unclassified" /\ unclassified_count > 0
                           THEN unclassified_count
                           ELSE Cardinality(GroupRows(self.df, l)) ]

\* the values of a column over a set of rows, in ascending order
RECURSIVE sorted_values(_, _, _)
sorted_values(df, rows, field) ==
    IF rows = {} THEN << >>
    ELSE LET i == CHOOSE i \in rows : \A j \in rows :
                      \/ df[i][field] < df[j][field]
                      \/ (df[i][field] = df[j][field] /\ i <= j)
         IN  << df[i][field] >> \o sorted_values(df, rows \ {i}, field)

RECURSIVE sum_values(_)
sum_values(values) == IF values = << >> THEN 0 ELSE Head(values) + sum_values(Tail(values))

\* values.min(), values.max(), values.mean(), values.median() of one column
\* of one group; mean and median are the float64 quotients num / den, kept
\* as the two ints
field_stats(df, rows, field) ==
    LET values == sorted_values(df, rows, field)
        n == Len(values)
    IN  [ min |-> values[1],
          max |-> values[n],
          mean |-> [ num |-> sum_values(values), den |-> n ],
          median |-> IF n % 2 = 1
                     THEN [ num |-> values[(n + 1) \div 2], den |-> 1 ]
                     ELSE [ num |-> values[n \div 2] + values[n \div 2 + 1], den |-> 2 ] ]

\* stats_dict of one group: the group, its row count, and the four
\* statistics of every field of NUMERIC_FIELDS that is a column of the frame
stats_dict(df, group_name) ==
    LET rows == GroupRows(df, group_name)
        columns == DOMAIN df[Minimum(rows)]
    IN  [ group |-> group_name,
          count |-> Cardinality(rows),
          stats |-> [ f \in { f \in Range(NUMERIC_FIELDS) : f \in columns } |->
                        field_stats(df, rows, f) ] ]

\* group_order of calculate_group_statistics
group_order == << "Muku", "Muku_Amme", "Milchvieh", "BKMmZ", "BKMoZ", "IKM" >>

\* the keys of self.df.groupby("group"), which come in ascending order
set_to_seq(S) == sorted_strings(S)

\* FarmAnalyzer.calculate_group_statistics(group): the rows of the returned
\* frame, in order.  pd.Categorical turns a label outside group_order into
\* a missing value, and sort_values puts the rows of missing values last,
\* in the order groupby gave them.
calculate_group_statistics(self, group) ==
    LET df == self.df
        present == { df[i]["group"] : i \in DOMAIN df } \ { NoGroup }
        InOrder(g) == g \in present
        known == SelectSeq(group_order, InOrder)
        unknown == set_to_seq(present \ Range(group_order))
    IN  IF present = {} THEN << >>
        ELSE IF group # NoGroup
             THEN IF GroupRows(df, group) = {} THEN << >>
                  ELSE << stats_dict(df, group) >>
             ELSE [ k \in 1..Len(known) |-> stats_dict(df, known[k]) ]
                    \o [ k \in 1..Len(unknown) |->
                           [ stats_dict(df, unknown[k]) EXCEPT !.group = NoGroup ] ]

\* key_columns of get_summary_by_group after "group" and "count"
key_columns ==
    << [ name |-> "n_animals_total_mean", field |-> "n_animals_total", stat |-> "mean" ],
       [ name |-> "n_animals_total_median", field |-> "n_animals_total", stat |-> "median" ],
       [ name |-> "animalyear_days_female_age3_dairy_mean", field |-> "animalyear_days_female_age3_dairy", stat |-> "mean" ],
       [ name |-> "animalyear_days_female_age3_dairy_median", field |-> "animalyear_days_female_age3_dairy", stat |-> "median" ],
       [ name |-> "animalyear_days_female_age3_double_mean", field |-> "animalyear_days_female_age3_double", stat |-> "mean" ],
       [ name |-> "animalyear_days_female_age3_double_median", field |-> "animalyear_days_female_age3_double", stat |-> "median" ],
       [ name |-> "animalyear_days_female_age3_dairydouble_V2_mean", field |-> "animalyear_days_female_age3_dairydouble_V2", stat |-> "mean" ],
       [ name |-> "animalyear_days_female_age3_dairydouble_V2_median", field |-> "animalyear_days_female_age3_dairydouble_V2", stat |-> "median" ],
       [ name |-> "n_total_entries_younger85_mean", field |-> "n_total_entries_younger85", stat |-> "mean" ],
       [ name |-> "n_total_leavings_younger51_mean", field |-> "n_total_leavings_younger51", stat |-> "mean" ] >>

\* round(2) of the float64 num / den, in hundredths: numpy multiplies the
\* float64 by 100, takes rint of the float64 product and divides by 100
round2(q) ==
    [ num |-> rint(float_mul(float_div(float(q.num), q.den), 100)), den |-> 100 ]

\* FarmAnalyzer.get_summary_by_group: the projection of the statistics on
\* the key columns that exist, rounded to two decimals
get_summary_by_group(self) ==
    LET summary_stats == calculate_group_statistics(self, NoGroup)
    IN  [ k \in DOMAIN summary_stats |->
            LET row == summary_stats[k]
                available == { c \in Range(key_columns) : c.field \in DOMAIN row.stats }
            IN  [ group |-> row.group,
                  count |-> row.count,
                  columns |-> [ name \in { c.name : c \in available } |->
                                  LET c == CHOOSE c \in available : c.name = name
                                  IN  round2(row.stats[c.field][c.stat]) ] ] ]

\* FarmAnalyzer.get_farms_by_group(group)
get_farms_by_group(farm_list, group) ==
    LET InGroup(f) == f.group = group
    IN  SelectSeq(farm_list, InGroup)

\* FarmAnalyzer.get_unclassified_farms()
get_unclassified_farms(farm_list) ==
    LET Unclassified(f) == f.group = NoGroup
    IN  SelectSeq(farm_list, Unclassified)

----------------------------------------------------------------------------
(* io_utils.py, validators.py: reading a CSV file *)

\* an Optional[...] attribute: a value, or Python's None
Some(x) == [ some |-> TRUE, value |-> x ]
Nothing == [ some |-> FALSE ]

\* one row of a CSV file: the columns the model follows
Row(tvd, v, n_animals_total, year) ==
    [ tvd |-> tvd, indicators |-> v, n_animals_total |-> n_animals_total, Jahr |-> year ]

\* the files of the session: a path that does not exist, a file with a
\* header line only, a file with one good row, a file with a good row and
\* a row FarmData rejects (year below 2000), a file with rejected rows only
Files == { "missing.csv", "header.csv", "a.csv", "b.csv", "c.csv" }

FileRows(path) ==
    CASE path = "header.csv" -> << >>
      [] path = "a.csv" -> << Row(1, <<0, 0, 0, 0, 0, 1>>, 10, 2020) >>
      [] path = "b.csv" -> << Row(1, <<1, 0, 0, 1, 0, 1>>, 20, 2021),
                              Row(2, <<0, 0, 0, 0, 0, 1>>, 10, 1999) >>
      [] path = "c.csv" -> << Row(1, <<1, 1, 1, 1, 1, 1>>, 10, 1999) >>
      [] OTHER -> << >>

\* IOUtils.read_csv(file_path): the frame read or the exception raised
\* (DataValidator.validate_file_exists, validate_dataframe_structure)
read_csv(file_path) ==
    IF file_path = "missing.csv"
    THEN [ df |-> << >>, raised |-> [ type |-> "FileNotFoundError" ] ]
    ELSE IF FileRows(file_path) = << >>
    THEN [ df |-> << >>, raised |-> [ type |-> "ValueError", message |-> "DataFrame is empty" ] ]
    ELSE [ df |-> FileRows(file_path), raised |-> NoError ]

\* FarmData(...) accepts the row: year: int = Field(..., ge=2000, le=2100)
RowIsValid(row) == row.Jahr >= 2000 /\ row.Jahr <= 2100

\* the loop of IOUtils.dataframe_to_farm_data from row i on
RECURSIVE parse_rows(_, _)
parse_rows(df, i) ==
    IF i > Len(df) THEN << >>
    ELSE LET row == df[i]
             v == row.indicators
         IN  (IF RowIsValid(row)
              THEN << [ ParsedFarm(row.tvd, row.n_animals_total, v[1], v[2], v[3], v[4], v[5], v[6])
                          EXCEPT !.year = row.Jahr ] >>
              ELSE << >>) \o parse_rows(df, i + 1)

\* IOUtils.dataframe_to_farm_data(df)
dataframe_to_farm_data(df) ==
    LET errors == { i \in DOMAIN df : ~RowIsValid(df[i]) }
    IN  IF errors # {} /\ Cardinality(errors) = Len(df)
        THEN [ farms |-> << >>, raised |-> [ type |-> "ValueError", message |-> "Failed to parse all rows" ] ]
        ELSE [ farms |-> parse_rows(df, 1), raised |-> NoError ]

----------------------------------------------------------------------------
(* mcp_server/server.py: DataContext and the tool handlers *)

\* DataContext.__init__(auto_load=False)
DataContext ==
    [ raw_df |-> Nothing, farms |-> Nothing, analyzer |-> Nothing, classifier |-> Nothing,
      data_loaded |-> FALSE, classified |-> FALSE ]

\* A load_data that forgets the loaded data when the read fails.
load_data_clear(self, file_path) ==
    LET r == read_csv(file_path)
    IN  IF r.raised # NoError
        THEN [ self |-> [ self EXCEPT !.raw_df = Nothing, !.data_loaded = FALSE ],
               result |-> [ success |-> FALSE, error |-> r.raised.type ] ]
        ELSE [ self |-> [ self EXCEPT !.raw_df = Some(r.df), !.data_loaded = TRUE,
                                      !.classified = FALSE ],
               result |-> [ success |-> TRUE, file |-> file_path, rows |-> Len(r.df) ] ]

\* DataContext.load_data(file_path): the session afterwards and the
\* dictionary returned
load_data(self, file_path) ==
    LET r == read_csv(file_path)
    IN  IF r.raised # NoError
        THEN [ self |-> self, result |-> [ success |-> FALSE, error |-> r.raised.type ] ]
        ELSE [ self |-> [ self EXCEPT !.raw_df = Some(r.df), !.data_loaded = TRUE,
                                      !.classified = FALSE ],
               result |-> [ success |-> TRUE, file |-> file_path, rows |-> Len(r.df) ] ]

\* A DataContext.classify_farms that leaves an empty farm list in a session
\* without data.
session_classify_farms_reset(self, cfg) ==
    IF ~self.data_loaded \/ ~self.raw_df.some
    THEN [ self |-> [ self EXCEPT !.farms = Some(<< >>) ],
           result |-> [ success |-> FALSE, error |-> "No data loaded. Load data first." ] ]
    ELSE LET conv == dataframe_to_farm_data(self.raw_df.value)
             self1 == [ self EXCEPT !.farms = Some(conv.farms) ]
             c == FarmClassifier(NoMode, cfg)
             pass == classify_farms(c.self, conv.farms, cfg)
             self2 == [ self1 EXCEPT !.classifier = Some(c.self), !.farms = Some(pass.farms) ]
             a == FarmAnalyzer(pass.farms)
             self3 == [ self2 EXCEPT !.analyzer = Some([ df |-> a.self.df, farms |-> a.farms ]),
                                     !.classified = TRUE ]
         IN  IF conv.raised # NoError
             THEN [ self |-> self, result |-> [ success |-> FALSE, error |-> conv.raised.type ] ]
             ELSE IF c.raised # NoError
             THEN [ self |-> self1, result |-> [ success |-> FALSE, error |-> c.raised.type ] ]
             ELSE IF a.raised # NoError
             THEN [ self |-> self2, result |-> [ success |-> FALSE, error |-> a.raised.type ] ]
             ELSE [ self |-> self3,
                    result |-> [ success |-> TRUE,
                                 total_farms |-> Len(pass.farms),
                                 classified_farms |-> pass.classified_count,
                                 group_counts |-> get_group_counts(a.self) ] ]

\* DataContext.classify_farms(): the session afterwards and the dictionary
\* returned; an exception leaves the attributes assigned before it
session_classify_farms(self, cfg) ==
    IF ~self.data_loaded \/ ~self.raw_df.some
    THEN [ self |-> self,
           result |-> [ success |-> FALSE, error |-> "No data loaded. Load data first." ] ]
    ELSE LET conv == dataframe_to_farm_data(self.raw_df.value)
             self1 == [ self EXCEPT !.farms = Some(conv.farms) ]
             c == FarmClassifier(NoMode, cfg)
             pass == classify_farms(c.self, conv.farms, cfg)
             self2 == [ self1 EXCEPT !.classifier = Some(c.self), !.farms = Some(pass.farms) ]
             a == FarmAnalyzer(pass.farms)
             self3 == [ self2 EXCEPT !.analyzer = Some([ df |-> a.self.df, farms |-> a.farms ]),
                                     !.classified = TRUE ]
         IN  IF conv.raised # NoError
             THEN [ self |-> self, result |-> [ success |-> FALSE, error |-> conv.raised.type ] ]
             ELSE IF c.raised # NoError
             THEN [ self |-> self1, result |-> [ success |-> FALSE, error |-> c.raised.type ] ]
             ELSE IF a.raised # NoError
             THEN [ self |-> self2, result |-> [ success |-> FALSE, error |-> a.raised.type ] ]
             ELSE [ self |-> self3,
                    result |-> [ success |-> TRUE,
                                 total_farms |-> Len(pass.farms),
                                 classified_farms |-> pass.classified_count,
                                 group_counts |-> get_group_counts(a.self) ] ]

\* DataContext.get_data_summary()
get_data_summary(self) ==
    IF ~self.data_loaded
    THEN [ loaded |-> FALSE, message |-> "No data loaded" ]
    ELSE IF self.classified /\ self.analyzer.some
    THEN [ loaded |-> TRUE, classified |-> self.classified,
           total_rows |-> IF self.raw_df.some THEN Len(self.raw_df.value) ELSE 0,
           group_counts |-> get_group_counts(self.analyzer.value) ]
    ELSE [ loaded |-> TRUE, classified |-> self.classified,
           total_rows |-> IF self.raw_df.some THEN Len(self.raw_df.value) ELSE 0 ]

\* the error every query and analysis handler returns before its
\* prerequisite
NotClassifiedError == [ error |-> "Data not loaded or classified. Load and classify data first." ]

\* filtered[:limit] of a Python list
list_slice_to(lst, limit) ==
    LET n == Len(lst)
        stop == IF limit >= n THEN n
                ELSE IF limit >= 0 THEN limit
                ELSE IF n + limit > 0 THEN n + limit ELSE 0
    IN  SubSeq(lst, 1, stop)

\* A handle_query_farms that serves the farms the session holds whether or
\* not the session is classified.
handle_query_farms_unguarded(self, arguments) ==
    IF ~self.farms.some THEN NotClassifiedError
    ELSE [ count |-> Len(self.farms.value), farms |-> self.farms.value ]

\* handle_query_farms(arguments): arguments maps the names of the filters
\* given to their values.  group, tvd and year filter when their value is
\* truthy (not "", not 0), min_animals and max_animals when they are given,
\* and the farms kept are cut to the first limit, 100 unless given.
handle_query_farms(self, arguments) ==
    IF ~self.classified \/ ~self.farms.some THEN NotClassifiedError
    ELSE LET given(k) == k \in DOMAIN arguments
             by_group == given("group") /\ arguments["group"] # ""
             by_tvd == given("tvd") /\ arguments["tvd"] # 0
             by_year == given("year") /\ arguments["year"] # 0
             Keep(f) == /\ (by_group => (f.group # NoGroup /\ f.group = arguments["group"]))
                        /\ (by_tvd => f.tvd = arguments["tvd"])
                        /\ (by_year => f.year = arguments["year"])
                        /\ (given("min_animals") =>
                               f.n_animals_total >= arguments["min_animals"])
                        /\ (given("max_animals") =>
                               f.n_animals_total <= arguments["max_animals"])
             limit == IF given("limit") THEN arguments["limit"] ELSE 100
             filtered == list_slice_to(SelectSeq(self.farms.value, Keep), limit)
         IN  [ count |-> Len(filtered),
               filters_applied |-> [ k \in DOMAIN arguments \ { "limit" } |-> arguments[k] ],
               farms |-> [ i \in DOMAIN filtered |->
                             [ tvd |-> filtered[i].tvd, year |-> filtered[i].year,
                               group |-> filtered[i].group,
                               n_animals_total |-> filtered[i].n_animals_total,
                               n_females_age3_dairy |-> filtered[i].n_females_age3_dairy,
                               n_females_age3_total |-> filtered[i].n_females_age3_total ] ] ]

\* handle_get_farm_details(arguments): the first farm with the tvd given
handle_get_farm_details(self, tvd) ==
    IF ~self.classified \/ ~self.farms.some THEN NotClassifiedError
    ELSE LET found == { i \in DOMAIN self.farms.value : self.farms.value[i].tvd = tvd }
         IN  IF found = {} THEN [ error |-> "Farm with TVD " \o ToString(tvd) \o " not found" ]
             ELSE LET f == self.farms.value[Minimum(found)]
                  IN  [ tvd |-> f.tvd, year |-> f.year, group |-> f.group,
                        classification_indicators |->
                            [ female_dairy_cattle_v2 |-> f.indicator_female_dairy_cattle_v2,
                              female_cattle |-> f.indicator_female_cattle,
                              calf_arrivals |-> f.indicator_calf_arrivals,
                              calf_leavings |-> f.indicator_calf_leavings,
                              female_slaughterings |-> f.indicator_female_slaughterings,
                              young_slaughterings |-> f.indicator_young_slaughterings ],
                        animal_counts |->
                            [ n_animals_total |-> f.n_animals_total,
                              n_females_age3_dairy |-> f.n_females_age3_dairy,
                              n_females_age3_total |-> f.n_females_age3_total,
                              n_females_younger731 |-> f.n_females_younger731,
                              n_animals_from51_to730 |-> f.n_animals_from51_to730 ],
                        movements |->
                            [ n_total_entries_younger85 |-> f.n_total_entries_younger85,
                              n_total_leavings_younger51 |-> f.n_total_leavings_younger51 ],
                        proportions |->
                            [ n_days_female_age3_dairy |-> f.n_days_female_age3_dairy,
                              prop_days_female_age3_dairy |-> f.prop_days_female_age3_dairy,
                              prop_females_slaughterings_younger731 |->
                                  f.prop_females_slaughterings_younger731 ] ]

\* handle_calculate_statistics(arguments): the group is looked up when
\* the argument is truthy, so "" asks for all groups as None does
handle_calculate_statistics(self, group_name) ==
    IF ~self.classified \/ ~self.analyzer.some THEN NotClassifiedError
    ELSE IF group_name \in { NoGroup, "" }
    THEN [ statistics |-> calculate_group_statistics(self.analyzer.value, NoGroup) ]
    ELSE IF group_name \notin Range(FarmGroup)
    THEN [ error |-> "Unknown group: " \o group_name ]
    ELSE [ statistics |-> calculate_group_statistics(self.analyzer.value, group_name) ]

\* m in col of two str objects
str_in(m, col) ==
    \E i \in 1..(Len(col) - Len(m) + 1) : SubSeq(col, i, i + Len(m) - 1) = m

\* handle_compare_groups(arguments): what it returns and what it raises.
\* A non-empty groups selects by summary["classification_pattern"], a
\* column the summary does not have, which raises KeyError.  A non-empty
\* metrics keeps "count" and the columns whose name contains one of the
\* metrics; "classification_pattern" is no column, so "group" stays only if
\* a metric is part of its name.
handle_compare_groups(self, arguments) ==
    IF ~self.classified \/ ~self.analyzer.some
    THEN [ raised |-> NoError, result |-> NotClassifiedError ]
    ELSE LET given(k) == k \in DOMAIN arguments /\ arguments[k] # << >>
             summary == get_summary_by_group(self.analyzer.value)
             wanted(col) == \E j \in DOMAIN arguments["metrics"] :
                                str_in(arguments["metrics"][j], col)
             kept(row) ==
                 LET columns == [ name \in { n \in DOMAIN row.columns : wanted(n) } |->
                                    row.columns[name] ]
                 IN  IF wanted("group")
                     THEN [ group |-> row.group, count |-> row.count, columns |-> columns ]
                     ELSE [ count |-> row.count, columns |-> columns ]
         IN  IF given("groups") THEN [ raised |-> [ type |-> "KeyError" ] ]
             ELSE IF given("metrics")
             THEN [ raised |-> NoError,
                    result |-> [ comparison |-> [ k \in DOMAIN summary |-> kept(summary[k]) ] ] ]
             ELSE [ raised |-> NoError, result |-> [ comparison |-> summary ] ]

----------------------------------------------------------------------------
(* filters.py: DataFilter *)

\* DataFilter.__init__(farms): parent_filter is None, so original_count is
\* len(farms) and filter_history is empty
DataFilter(farm_list) ==
    [ farms |-> farm_list, original_count |-> Len(farm_list), filter_history |-> << >> ]

\* what a filter operation leaves: the receiver after the call, the object
\* returned, whether that object was created by the call, and no exception
FilterReturns(self, child, fresh) ==
    [ self |-> self, returned |-> Some(child), fresh |-> fresh, raised |-> NoError ]

\* a filter operation that raises: the receiver after the call, no object
FilterRaises(self, type) ==
    [ self |-> self, returned |-> Nothing, fresh |-> FALSE,
      raised |-> [ NoError EXCEPT !.type = type ] ]

\* FilterSummary(filter_name=..., original_count=len(self.farms), ...).
\* removed_percentage is the float removed_count / len(self.farms) * 100,
\* kept as the fraction num / den.
FilterSummary(filter_name, n_before, n_after, filter_params) ==
    [ filter_name |-> filter_name,
      original_count |-> n_before,
      filtered_count |-> n_after,
      removed_count |-> n_before - n_after,
      removed_percentage |-> [ num |-> (n_before - n_after) * 100, den |-> n_before ],
      filter_params |-> filter_params ]

\* DataFilter._create_child_filter(filtered_farms, filter_summary):
\* DataFilter(filtered_farms, parent_filter=self) takes the parent's
\* original_count and a copy of its filter_history, then appends the summary
create_child_filter(self, filtered_farms, filter_summary) ==
    [ farms |-> filtered_farms,
      original_count |-> self.original_count,
      filter_history |-> Append(self.filter_history, filter_summary) ]

\* the tail every filter operation shares: summary = FilterSummary(...), in
\* which (len(self.farms) - len(filtered_farms)) / len(self.farms) divides
\* by zero for a receiver without farms, then
\* return self._create_child_filter(filtered_farms, summary)
summary_and_child(self, filtered_farms, filter_name, filter_params) ==
    IF Len(self.farms) = 0
    THEN FilterRaises(self, "ZeroDivisionError")
    ELSE FilterReturns(self,
             create_child_filter(self, filtered_farms,
                 FilterSummary(filter_name, Len(self.farms), Len(filtered_farms),
                               filter_params)),
             TRUE)

\* DataFilter._get_column_values(column): hasattr(farm, column) fails for
\* the first farm without the attribute and ValueError is raised; the
\* numeric fields of FarmData are required, so every farm has a value
column_exists(self, column) ==
    \A i \in 1..Len(self.farms) : column \in DOMAIN self.farms[i]

get_column_values(self, column) ==
    [ i \in 1..Len(self.farms) |-> self.farms[i][column] ]

\* sorted(values), as np.percentile sorts its input
RECURSIVE np_sort(_)
np_sort(values) ==
    IF values = << >> THEN << >>
    ELSE LET m == Minimum(Range(values))
             i == CHOOSE k \in 1..Len(values) :
                      values[k] = m /\ \A j \in 1..(k - 1) : values[j] # m
         IN  <<m>> \o np_sort(SubSeq(values, 1, i - 1) \o SubSeq(values, i + 1, Len(values)))

\* np.percentile(values, q) with the default linear method, q a float64
\* and the values ints: the quantile q / 100, the virtual index
\* (n - 1) * quantile, its floor and its fraction gamma, and the
\* interpolation between the two ranks next to it, a + (b - a) * gamma, or
\* b - (b - a) * (1 - gamma) where gamma >= 0.5, each step in float64
np_percentile(values, q) ==
    LET s == np_sort(values)
        n == Len(s)
        virtual_index == float_mul(float_div(q, 100), n - 1)
        previous == int(virtual_index)
        gamma == frac_part(virtual_index)
        a == s[previous + 1]
        b == s[IF previous + 2 > n THEN n ELSE previous + 2]
    IN  IF (-1) \in gamma
        THEN float_sub(float(b), float_mul(exact_sub({0}, gamma), b - a))
        ELSE float_add(float(a), float_mul(gamma, b - a))

\* DataFilter.trim_percentile(column, lower_percentile, upper_percentile);
\* the two arguments are the literals lower / 100 and upper / 100, given by
\* their whole percents, and np.percentile gets percentile * 100
trim_percentile(self, column, lower_percentile, upper_percentile) ==
    IF ~(0 <= lower_percentile /\ lower_percentile < upper_percentile
            /\ upper_percentile <= 100)
    THEN FilterRaises(self, "ValueError")
    ELSE IF ~column_exists(self, column) THEN FilterRaises(self, "ValueError")
    ELSE LET values == get_column_values(self, column)
         IN  IF values = << >> THEN FilterReturns(self, self, FALSE)
             ELSE LET lower_value ==
                          np_percentile(values, float_mul(decimal(lower_percentile, 100), 100))
                      upper_value ==
                          np_percentile(values, float_mul(decimal(upper_percentile, 100), 100))
                      Within(f) == /\ ~float_less(float(f[column]), lower_value)
                                   /\ ~float_less(upper_value, float(f[column]))
                  IN  summary_and_child(self, SelectSeq(self.farms, Within),
                          "trim_percentile:" \o column,
                          [ column |-> column, lower_percentile |-> lower_percentile,
                            upper_percentile |-> upper_percentile,
                            lower_value |-> lower_value, upper_value |-> upper_value ])

\* method: Optional[str] = None
NoMethod == "None"

\* OutlierInfo of a detection that found too little data
NoOutliers(threshold) ==
    [ raised |-> NoError, threshold |-> threshold, outlier_tvds |-> {},
      lower_bound |-> Nothing, upper_bound |-> Nothing ]

\* a detection that raises
DetectionRaises(type) ==
    [ raised |-> [ NoError EXCEPT !.type = type ], threshold |-> None, outlier_tvds |-> {},
      lower_bound |-> Nothing, upper_bound |-> Nothing ]

\* OutlierInfo(..., outlier_tvds=outlier_tvds): the field is List[str] and
\* FarmData.tvd is an int, so the model class rejects a list that is not
\* empty with ValidationError
OutlierInfo(threshold, lower_bound, upper_bound, outlier_tvds) ==
    IF outlier_tvds # {} THEN DetectionRaises("ValidationError")
    ELSE [ raised |-> NoError, threshold |-> threshold, outlier_tvds |-> outlier_tvds,
           lower_bound |-> Some(lower_bound), upper_bound |-> Some(upper_bound) ]

\* multiplier * iqr in detect_outliers_iqr; the multiplier is the literal of
\* its tenths.  The quartiles of int values are whole quarters, so iqr is an
\* int over 4 and the product is the float64 product by that int, over 4.
multiplier_times_iqr(multiplier, iqr) ==
    scaled(float_mul(decimal(multiplier, 10), int(scaled(iqr, 2))), -2)

\* q1 - multiplier * iqr, kept as a sign and a magnitude
iqr_lower_bound(q1, spread) ==
    IF float_less(q1, spread)
    THEN [ negative |-> TRUE, magnitude |-> float_sub(spread, q1) ]
    ELSE [ negative |-> FALSE, magnitude |-> float_sub(q1, spread) ]

\* value < lower_bound or value > upper_bound
iqr_is_outlier(value, lower_bound, upper_bound) ==
    \/ ~lower_bound.negative /\ float_less(float(value), lower_bound.magnitude)
    \/ float_less(upper_bound, float(value))

\* the end of detect_outliers_iqr: the tvd of every farm whose value lies
\* outside the bounds, and the OutlierInfo built of them
iqr_outlier_info(self, column, multiplier, lower_bound, upper_bound) ==
    OutlierInfo(multiplier, lower_bound, upper_bound,
        { self.farms[i].tvd : i \in
            { j \in 1..Len(self.farms) :
                iqr_is_outlier(self.farms[j][column], lower_bound, upper_bound) } })

\* the bounds q1 - multiplier * iqr and q3 + multiplier * iqr
iqr_bounds(self, column, multiplier, q1, q3, spread) ==
    iqr_outlier_info(self, column, multiplier, iqr_lower_bound(q1, spread),
                     float_add(q3, spread))

\* iqr = q3 - q1
iqr_of_quartiles(self, column, multiplier, q1, q3) ==
    iqr_bounds(self, column, multiplier, q1, q3,
               multiplier_times_iqr(multiplier, float_sub(q3, q1)))

\* DataFilter.detect_outliers_iqr(column, multiplier).  For multiplier None
\* the method reads self.config.filtering, a section AppConfig does not
\* have.
detect_outliers_iqr(self, column, multiplier) ==
    IF multiplier = None THEN DetectionRaises("AttributeError")
    ELSE IF ~column_exists(self, column) THEN DetectionRaises("ValueError")
    ELSE IF Len(self.farms) < 4 THEN NoOutliers(multiplier)
    ELSE iqr_of_quartiles(self, column, multiplier,
             np_percentile(get_column_values(self, column), float(25)),
             np_percentile(get_column_values(self, column), float(75)))

\* sum of a list of numbers
RECURSIVE np_sum(_)
np_sum(values) == IF values = << >> THEN 0 ELSE Head(values) + np_sum(Tail(values))

\* mean + threshold * std_dev of n values of sum S, kept as its parts: the
\* mean S / n, the signed threshold in tenths and the sample variance
\* ss / (n * n * (n - 1))
zscore_bound(S, n, ss, threshold) ==
    [ mean |-> [ num |-> S, den |-> n ], threshold |-> threshold,
      variance |-> [ num |-> ss, den |-> n * n * (n - 1) ] ]

\* DataFilter.detect_outliers_zscore(column, threshold); the threshold is
\* given in tenths.  With n values of sum S and d_i = n * v_i - S, the
\* sample standard deviation is 0 exactly if every d_i is 0, and
\* abs((v - mean) / std_dev) > threshold exactly if
\* 100 * d^2 * (n - 1) > threshold^2 * sum of the d_i^2.  The comparison
\* is decided on the exact values; the float64 values of the code decide
\* it the same way unless the two sides are equal or differ in the last
\* digits only.
detect_outliers_zscore(self, column, threshold) ==
    IF threshold = None THEN DetectionRaises("AttributeError")
    ELSE IF ~column_exists(self, column) THEN DetectionRaises("ValueError")
    ELSE LET values == get_column_values(self, column)
             n == Len(values)
             d == [ i \in 1..n |-> n * values[i] - np_sum(values) ]
             ss == np_sum([ i \in 1..n |-> d[i] * d[i] ])
         IN  IF n < 3 \/ ss = 0 THEN NoOutliers(threshold)
             ELSE OutlierInfo(threshold,
                      zscore_bound(np_sum(values), n, ss, -threshold),
                      zscore_bound(np_sum(values), n, ss, threshold),
                      { self.farms[i].tvd : i \in
                          { j \in 1..n :
                              100 * d[j] * d[j] * (n - 1) > threshold * threshold * ss } })

\* DataFilter.remove_outliers(column, method, threshold).  For method None
\* the method reads self.config.filtering, a section AppConfig does not
\* have.
remove_outliers(self, column, method, threshold) ==
    IF method = NoMethod THEN FilterRaises(self, "AttributeError")
    ELSE LET method_lower == lower(method)
         IN  IF method_lower \notin { "iqr", "zscore" } THEN FilterRaises(self, "ValueError")
             ELSE LET outlier_info == IF method_lower = "iqr"
                                      THEN detect_outliers_iqr(self, column, threshold)
                                      ELSE detect_outliers_zscore(self, column, threshold)
                      Kept(f) == f.tvd \notin outlier_info.outlier_tvds
                  IN  IF outlier_info.raised # NoError
                      THEN FilterRaises(self, outlier_info.raised.type)
                      ELSE summary_and_child(self, SelectSeq(self.farms, Kept),
                               "remove_outliers_" \o method_lower \o ":" \o column,
                               [ column |-> column, method |-> method_lower,
                                 threshold |-> outlier_info.threshold,
                                 lower_bound |-> outlier_info.lower_bound,
                                 upper_bound |-> outlier_info.upper_bound ])

\* DataFilter.filter_by_range(column, min_value, max_value)
filter_by_range(self, column, min_value, max_value) ==
    IF min_value = None /\ max_value = None THEN FilterReturns(self, self, FALSE)
    ELSE IF ~column_exists(self, column) THEN FilterRaises(self, "ValueError")
    ELSE LET InRange(f) == /\ (min_value # None => ~(f[column] < min_value))
                           /\ (max_value # None => ~(f[column] > max_value))
         IN  summary_and_child(self, SelectSeq(self.farms, InRange),
                 "range_filter:" \o column,
                 [ column |-> column, min_value |-> min_value, max_value |-> max_value ])

\* DataFilter.filter_by_group(*groups)
filter_by_group(self, groups) ==
    IF groups = << >> THEN FilterReturns(self, self, FALSE)
    ELSE LET InGroups(f) == f.group \in Range(groups)
         IN  summary_and_child(self, SelectSeq(self.farms, InGroups),
                 "group_filter", [ groups |-> groups ])

\* DataFilter.exclude_unclassified()
exclude_unclassified(self) ==
    LET Classified(f) == f.group # NoGroup
    IN  summary_and_child(self, SelectSeq(self.farms, Classified),
            "exclude_unclassified", << >>)

\* the filter functions handed to filter_custom, by the name they are given:
\* lambda farm: farm.n_animals_total > 15 and lambda farm: farm.year == 2020
filter_func(name, f) ==
    IF name = "large_farms" THEN f.n_animals_total > 15 ELSE f.year = 2020

\* DataFilter.filter_custom(filter_func, name)
filter_custom(self, name) ==
    LET Keep(f) == filter_func(name, f)
    IN  summary_and_child(self, SelectSeq(self.farms, Keep),
            "custom:" \o name, [ name |-> name ])

----------------------------------------------------------------------------
(* Inputs *)

Bit == {0, 1}

\* mode strings passed to the constructor that are no IndicatorMode value
InvalidModes == { "six-strict", "3-indicators" }

\* constructor arguments: a supported mode, an unsupported one, or None
ModeArgs == Range(IndicatorMode) \cup InvalidModes \cup { NoMode }

\* values of the indicator_mode setting the environment may supply
ConfigModes == { "6-indicators", "six-strict" }

\* the six indicators of a farm, in slot order
Indicators(f) ==
    << f.indicator_female_dairy_cattle_v2, f.indicator_female_cattle,
       f.indicator_calf_arrivals, f.indicator_calf_leavings,
       f.indicator_female_slaughterings, f.indicator_young_slaughterings >>

\* indicator vectors of the records of a batch: Muku in every mode,
\* Milchvieh in the flexible modes only, and one no profile accepts
SampleVectors == { <<0, 0, 0, 0, 0, 1>>, <<1, 0, 0, 1, 0, 1>>, <<1, 1, 1, 1, 1, 1>> }

\* values of n_animals_total of the records of a batch
SampleValues == { 10, 20 }

\* longest record list of a batch
MaxFarms == 2

\* group arguments of the aggregator's lookups: the first, a middle and
\* the last category
SampleGroups == { "Muku", "Milchvieh", "IKM" }

\* longest record list handed to a DataFilter
MaxFiltered == 4

\* most filters applied one after another
MaxChain == 2

\* rows of the records handed to a DataFilter, (n_animals_total, indicator
\* vector): a small and a large Muku farm, and a large farm no profile
\* accepts
FilterRows == { <<10, <<0, 0, 0, 0, 0, 1>>>>, <<20, <<0, 0, 0, 0, 0, 1>>>>,
                <<20, <<1, 1, 1, 1, 1, 1>>>> }

\* the record lists IOUtils.dataframe_to_farm_data builds from up to
\* MaxFiltered rows
RECURSIVE ParsedLists(_)
ParsedLists(n) ==
    IF n = 0 THEN { << >> }
    ELSE LET shorter == ParsedLists(n - 1)
         IN  shorter \cup
             { Append(l, ParsedFarm(Len(l) + 1, r[1], r[2][1], r[2][2], r[2][3], r[2][4],
                                    r[2][5], r[2][6])) :
                 l \in { k \in shorter : Len(k) = n - 1 }, r \in FilterRows }

\* The column named in a filter call is a numeric field of FarmData or, once
\* for each operation, the column of the class docstring's example, which
\* FarmData does not declare.
\* (column, lower_percentile, upper_percentile) of trim_percentile, the
\* percentiles in percent: the defaults, a pair whose product with 100 is no
\* whole number in float64, and a pair out of order
PercentileArgs ==
    { <<"n_animals_total", 5, 95>>, <<"n_animals_total", 28, 100>>,
      <<"n_animals_total", 50, 25>>, <<"animalyear_days_female_age3_dairy", 5, 95>> }

\* arguments of handle_query_farms: none, one filter, a group with a tvd,
\* falsy values, bounds on the animals, a limit
QueryArguments ==
    { [ k \in {} |-> 0 ], [ group |-> "Muku" ], [ tvd |-> 1 ], [ group |-> "Milchvieh", tvd |-> 1 ],
      [ group |-> "", tvd |-> 0, year |-> 0 ], [ year |-> 2021 ],
      [ min_animals |-> 15, max_animals |-> 15 ], [ limit |-> 1 ], [ limit |-> -1 ] }

\* arguments of handle_compare_groups: none, groups, metrics, empty lists
CompareArguments ==
    { [ k \in {} |-> 0 ], [ groups |-> << "Muku", "Milchvieh" >> ], [ metrics |-> << "mean" >> ],
      [ groups |-> << >>, metrics |-> << "n_animals", "group" >> ] }

\* (column, method, threshold in tenths) of remove_outliers: the defaults,
\* Tukey's 1.5, no margin at all, a z-score of 1.0 and one of 3.0 in
\* capitals, a method without its threshold, an unknown method
OutlierArgs ==
    { <<"n_animals_total", NoMethod, None>>, <<"n_animals_total", "iqr", 15>>,
      <<"n_animals_total", "IQR", 0>>, <<"n_animals_total", "zscore", 10>>,
      <<"n_animals_total", "ZScore", 30>>, <<"n_animals_total", "iqr", None>>,
      <<"n_animals_total", "mad", 15>>,
      <<"animalyear_days_female_age3_dairy", "iqr", 15>> }

\* (column, min_value, max_value) of filter_by_range
RangeArgs ==
    { <<"n_animals_total", None, None>>, <<"n_animals_total", 15, None>>,
      <<"n_animals_total", None, 15>>, <<"animalyear_days_female_age3_dairy", 15, None>> }

\* *groups of filter_by_group
GroupArgs == { << >>, <<"Muku">> }

\* names of the functions handed to filter_custom
CustomFilters == { "large_farms" }

NoResult == "n/a"
NoCounts == [ classified_count |-> 0, unclassified_count |-> 0, total |-> 0 ]
NoOutput == [ kind |-> "none" ]
\* no DataFilter has been built
NoChain == [ head |-> Nothing, before |-> Nothing, after |-> Nothing, returned |-> Nothing,
             fresh |-> FALSE ]
NoMemo == [ mode |-> NoMode, ind |-> << >>, group |-> NoGroup, warn |-> FALSE, result |-> NoResult ]

----------------------------------------------------------------------------
(* State machine *)

Init ==
    /\ classifier = NoClassifier
    /\ config = DefaultConfig
    /\ farm = FarmData(0, 0, 0, 0, 0, 0)
    /\ op = [ name |-> "start", arg |-> NoMode ]
    /\ result = NoResult
    /\ raised = NoError
    /\ log = "none"
    /\ counts = NoCounts
    /\ memo = NoMemo
    /\ farms = << >>
    /\ analyzer = NoAnalyzer
    /\ output = NoOutput
    /\ session = DataContext
    /\ chain = NoChain

\* classifier = FarmClassifier(indicator_mode)
Construct(indicator_mode) ==
    LET out == FarmClassifier(indicator_mode, config)
    IN  /\ classifier' = out.self
        /\ raised' = out.raised
        /\ op' = [ name |-> "__init__", arg |-> indicator_mode ]
        /\ result' = NoResult
        /\ log' = "none"
        /\ counts' = NoCounts
        /\ UNCHANGED <<config, farm, memo, farms, analyzer, output, session, chain>>

\* the ingestion layer hands over a validated record
NewFarm(i1, i2, i3, i4, i5, i6) ==
    /\ farm' = FarmData(i1, i2, i3, i4, i5, i6)
    /\ memo' = IF memo.ind = <<i1, i2, i3, i4, i5, i6>> THEN memo ELSE NoMemo
    /\ op' = [ name |-> "FarmData", arg |-> NoMode ]
    /\ result' = NoResult
    /\ raised' = NoError
    /\ log' = "none"
    /\ counts' = NoCounts
    /\ UNCHANGED <<classifier, config, farms, analyzer, output, session, chain>>

\* group = classifier.classify_farm(farm)
ClassifyFarm(remember) ==
    /\ classifier # NoClassifier
    /\ LET out == classify_farm(classifier, farm, config)
       IN  /\ result' = out.result
           /\ log' = out.log
           /\ memo' = IF remember
                      THEN [ mode |-> classifier.indicator_mode, ind |-> Indicators(farm),
                             group |-> farm.group,
                             warn |-> config.show_unclassified_warnings,
                             result |-> out.result ]
                      ELSE memo
    /\ op' = [ name |-> "classify_farm", arg |-> NoMode ]
    /\ raised' = NoError
    /\ counts' = NoCounts
    /\ UNCHANGED <<classifier, config, farm, farms, analyzer, output, session, chain>>

\* classifier.classify_farms([farm])
ClassifyFarms ==
    /\ classifier # NoClassifier
    /\ LET out == classify_farms(classifier, << farm >>, config)
       IN  /\ farm' = out.farms[1]
           /\ counts' = [ classified_count |-> out.classified_count,
                          unclassified_count |-> out.unclassified_count,
                          total |-> Len(out.farms) ]
    /\ op' = [ name |-> "classify_farms", arg |-> NoMode ]
    /\ result' = NoResult
    /\ raised' = NoError
    /\ log' = "none"
    /\ UNCHANGED <<classifier, config, memo, farms, analyzer, output, session, chain>>

\* cli.py: if show_unclassified_warnings:
\*             config.classification.show_unclassified_warnings = True
EnableWarnings ==
    /\ config' = [ config EXCEPT !.show_unclassified_warnings = TRUE ]
    /\ op' = [ name |-> "config", arg |-> NoMode ]
    /\ result' = NoResult
    /\ raised' = NoError
    /\ log' = "none"
    /\ counts' = NoCounts
    /\ UNCHANGED <<classifier, farm, memo, farms, analyzer, output, session, chain>>

\* reset_config(); get_config(): the singleton is rebuilt from defaults and
\* the environment
LoadConfig(indicator_mode, show_unclassified_warnings) ==
    /\ config' = [ indicator_mode |-> indicator_mode,
                   show_unclassified_warnings |-> show_unclassified_warnings ]
    /\ op' = [ name |-> "config", arg |-> NoMode ]
    /\ result' = NoResult
    /\ raised' = NoError
    /\ log' = "none"
    /\ counts' = NoCounts
    /\ UNCHANGED <<classifier, farm, memo, farms, analyzer, output, session, chain>>

Next ==
    \/ \E m \in ModeArgs : Construct(m)
    \/ \E i1, i2, i3, i4, i5, i6 \in Bit : NewFarm(i1, i2, i3, i4, i5, i6)
    \/ \E remember \in BOOLEAN : ClassifyFarm(remember)
    \/ ClassifyFarms
    \/ EnableWarnings
    \/ \E m \in ConfigModes, w \in BOOLEAN : LoadConfig(m, w)

Spec == Init /\ [][Next]_vars

----------------------------------------------------------------------------
(* The batch pipeline: ingestion, classification pass, aggregation *)

\* farms.append(FarmData(...)) in IOUtils.dataframe_to_farm_data
Ingest(v, n) ==
    /\ Len(farms) < MaxFarms
    /\ farms' = Append(farms, ParsedFarm(Len(farms) + 1, n, v[1], v[2], v[3], v[4], v[5], v[6]))
    /\ op' = [ name |-> "dataframe_to_farm_data", arg |-> NoMode ]
    /\ raised' = NoError
    /\ counts' = NoCounts
    /\ analyzer' = NoAnalyzer
    /\ output' = NoOutput
    /\ UNCHANGED <<classifier, config, farm, memo, result, log, session, chain>>

\* classifier.classify_farms(farms)
ClassifyFarmList ==
    /\ classifier # NoClassifier
    /\ LET out == classify_farms(classifier, farms, config)
       IN  /\ farms' = out.farms
           /\ counts' = [ classified_count |-> out.classified_count,
                          unclassified_count |-> out.unclassified_count,
                          total |-> Len(out.farms) ]
    /\ op' = [ name |-> "classify_farms", arg |-> NoMode ]
    /\ raised' = NoError
    /\ analyzer' = NoAnalyzer
    /\ output' = NoOutput
    /\ UNCHANGED <<classifier, config, farm, memo, result, log, session, chain>>

\* analyzer = FarmAnalyzer(farms)
AnalyzerInit ==
    LET a == FarmAnalyzer(farms)
    IN  /\ analyzer' = a.self
        /\ raised' = a.raised
        /\ farms' = a.farms
        /\ output' = NoOutput
        /\ op' = [ name |-> "FarmAnalyzer", arg |-> NoMode ]
        /\ counts' = NoCounts
        /\ UNCHANGED <<classifier, config, farm, memo, result, log, session, chain>>

\* FarmAnalyzer(farms).get_group_counts()
CountByCategory ==
    LET a == FarmAnalyzer(farms)
    IN  /\ analyzer' = a.self
        /\ raised' = a.raised
        /\ farms' = a.farms
        /\ output' = IF a.raised # NoError THEN NoOutput
                     ELSE [ kind |-> "counts", value |-> get_group_counts(a.self) ]
        /\ op' = [ name |-> "get_group_counts", arg |-> NoMode ]
        /\ counts' = NoCounts
        /\ UNCHANGED <<classifier, config, farm, memo, result, log, session, chain>>

\* FarmAnalyzer(farms).calculate_group_statistics(group)
ComputeStatistics(group) ==
    LET a == FarmAnalyzer(farms)
    IN  /\ analyzer' = a.self
        /\ raised' = a.raised
        /\ farms' = a.farms
        /\ output' = IF a.raised # NoError THEN NoOutput
                     ELSE [ kind |-> "statistics", value |-> calculate_group_statistics(a.self, group) ]
        /\ op' = [ name |-> "calculate_group_statistics", arg |-> group ]
        /\ counts' = NoCounts
        /\ UNCHANGED <<classifier, config, farm, memo, result, log, session, chain>>

\* FarmAnalyzer(farms).get_summary_by_group()
GetSummary ==
    LET a == FarmAnalyzer(farms)
    IN  /\ analyzer' = a.self
        /\ raised' = a.raised
        /\ farms' = a.farms
        /\ output' = IF a.raised # NoError THEN NoOutput
                     ELSE [ kind |-> "summary", value |-> get_summary_by_group(a.self) ]
        /\ op' = [ name |-> "get_summary_by_group", arg |-> NoMode ]
        /\ counts' = NoCounts
        /\ UNCHANGED <<classifier, config, farm, memo, result, log, session, chain>>

\* FarmAnalyzer(farms).get_farms_by_group(group)
FarmsByGroup(group) ==
    LET a == FarmAnalyzer(farms)
    IN  /\ analyzer' = a.self
        /\ raised' = a.raised
        /\ farms' = a.farms
        /\ output' = IF a.raised # NoError THEN NoOutput
                     ELSE [ kind |-> "farms", value |-> get_farms_by_group(a.farms, group) ]
        /\ op' = [ name |-> "get_farms_by_group", arg |-> group ]
        /\ counts' = NoCounts
        /\ UNCHANGED <<classifier, config, farm, memo, result, log, session, chain>>

\* FarmAnalyzer(farms).get_unclassified_farms()
UnclassifiedFarms ==
    LET a == FarmAnalyzer(farms)
    IN  /\ analyzer' = a.self
        /\ raised' = a.raised
        /\ farms' = a.farms
        /\ output' = IF a.raised # NoError THEN NoOutput
                     ELSE [ kind |-> "farms", value |-> get_unclassified_farms(a.farms) ]
        /\ op' = [ name |-> "get_unclassified_farms", arg |-> NoMode ]
        /\ counts' = NoCounts
        /\ UNCHANGED <<classifier, config, farm, memo, result, log, session, chain>>

NextAgg ==
    \/ \E m \in ModeArgs : Construct(m)
    \/ \E v \in SampleVectors, n \in SampleValues : Ingest(v, n)
    \/ ClassifyFarmList
    \/ AnalyzerInit
    \/ CountByCategory
    \/ \E g \in SampleGroups \cup { NoGroup } : ComputeStatistics(g)
    \/ GetSummary
    \/ \E g \in SampleGroups : FarmsByGroup(g)
    \/ UnclassifiedFarms

SpecAgg == Init /\ [][NextAgg]_vars

----------------------------------------------------------------------------
(* The tool-calling session: call_tool dispatching to the handlers *)

\* handle_load_data(arguments): data_context.load_data(file_path)
SessionLoad(file_path) ==
    LET r == load_data(session, file_path)
    IN  /\ session' = r.self
        /\ output' = r.result
        /\ op' = [ name |-> "handle_load_data", arg |-> file_path ]
        /\ raised' = NoError
        /\ UNCHANGED <<classifier, config, farm, memo, result, log, counts, farms, analyzer, chain>>

\* handle_classify_farms(arguments): data_context.classify_farms()
SessionClassify ==
    LET r == session_classify_farms(session, config)
    IN  /\ session' = r.self
        /\ output' = r.result
        /\ op' = [ name |-> "handle_classify_farms", arg |-> NoMode ]
        /\ raised' = NoError
        /\ UNCHANGED <<classifier, config, farm, memo, result, log, counts, farms, analyzer, chain>>

\* handle_get_data_info(arguments)
GetDataInfo ==
    /\ output' = get_data_summary(session)
    /\ op' = [ name |-> "handle_get_data_info", arg |-> NoMode ]
    /\ raised' = NoError
    /\ UNCHANGED <<classifier, config, farm, memo, result, log, counts, farms, analyzer, session, chain>>

\* handle_query_farms(arguments)
QueryFarms(arguments) ==
    /\ output' = handle_query_farms(session, arguments)
    /\ op' = [ name |-> "handle_query_farms", arg |-> arguments ]
    /\ raised' = NoError
    /\ UNCHANGED <<classifier, config, farm, memo, result, log, counts, farms, analyzer, session, chain>>

\* handle_get_farm_details(arguments)
GetFarmDetails(tvd) ==
    /\ output' = handle_get_farm_details(session, tvd)
    /\ op' = [ name |-> "handle_get_farm_details", arg |-> tvd ]
    /\ raised' = NoError
    /\ UNCHANGED <<classifier, config, farm, memo, result, log, counts, farms, analyzer, session, chain>>

\* handle_calculate_statistics(arguments)
CalculateStatistics(group_name) ==
    /\ output' = handle_calculate_statistics(session, group_name)
    /\ op' = [ name |-> "handle_calculate_statistics", arg |-> group_name ]
    /\ raised' = NoError
    /\ UNCHANGED <<classifier, config, farm, memo, result, log, counts, farms, analyzer, session, chain>>

\* handle_compare_groups(arguments)
CompareGroups(arguments) ==
    /\ output' = IF handle_compare_groups(session, arguments).raised = NoError
                 THEN handle_compare_groups(session, arguments).result
                 ELSE NoOutput
    /\ op' = [ name |-> "handle_compare_groups", arg |-> arguments ]
    /\ raised' = handle_compare_groups(session, arguments).raised
    /\ UNCHANGED <<classifier, config, farm, memo, result, log, counts, farms, analyzer, session, chain>>

NextSession ==
    \/ \E m \in ConfigModes, w \in BOOLEAN : LoadConfig(m, w)
    \/ \E f \in Files : SessionLoad(f)
    \/ SessionClassify
    \/ GetDataInfo
    \/ \E a \in QueryArguments : QueryFarms(a)
    \/ \E t \in { 1, 2 } : GetFarmDetails(t)
    \/ \E g \in SampleGroups \cup { NoGroup, "", "Cattle" } : CalculateStatistics(g)
    \/ \E a \in CompareArguments : CompareGroups(a)

SpecSession == Init /\ [][NextSession]_vars

----------------------------------------------------------------------------
(* Classification passes over the record list *)

\* the visiting orders of a list of n records
Orders(n) == { p \in [1..n -> 1..n] : \A i, j \in 1..n : p[i] = p[j] => i = j }

\* the visiting orders of the lists a batch can hold
AllOrders == UNION { Orders(n) : n \in 1..MaxFarms }

\* classifier.classify_farms(farms), remembering the categories the
\* records had before the pass
ClassifyPass ==
    /\ classifier # NoClassifier
    /\ LET out == classify_farms(classifier, farms, config)
       IN  /\ farms' = out.farms
           /\ counts' = [ classified_count |-> out.classified_count,
                          unclassified_count |-> out.unclassified_count,
                          total |-> Len(out.farms) ]
    /\ memo' = [ NoMemo EXCEPT !.mode = classifier.indicator_mode,
                               !.ind = [ i \in DOMAIN farms |-> farms[i].group ] ]
    /\ op' = [ name |-> "classify_farms", arg |-> NoMode ]
    /\ raised' = NoError
    /\ UNCHANGED <<classifier, config, farm, result, log, analyzer, output, session, chain>>

\* the per-record steps of a pass, run in the visiting order given
ClassifyInOrder(order) ==
    /\ classifier # NoClassifier
    /\ Len(order) = Len(farms)
    /\ farms' = classify_in_order(classifier, farms, config, order, 1)
    /\ memo' = [ NoMemo EXCEPT !.mode = classifier.indicator_mode,
                               !.ind = [ i \in DOMAIN farms |-> farms[i].group ] ]
    /\ op' = [ name |-> "classify_in_order", arg |-> order ]
    /\ raised' = NoError
    /\ counts' = NoCounts
    /\ UNCHANGED <<classifier, config, farm, result, log, analyzer, output, session, chain>>

NextPass ==
    \/ \E m \in ModeArgs : Construct(m)
    \/ \E v \in SampleVectors, n \in SampleValues : Ingest(v, n)
    \/ ClassifyPass
    \/ \E order \in AllOrders : ClassifyInOrder(order)

SpecPass == Init /\ [][NextPass]_vars

----------------------------------------------------------------------------
(* The classifier's profile table and its readers *)

\* classifier.get_profile_for_group(group)
GetProfileForGroup(group) ==
    /\ classifier # NoClassifier
    /\ output' = [ kind |-> "profile", value |-> get_profile_for_group(classifier, group) ]
    /\ op' = [ name |-> "get_profile_for_group", arg |-> group ]
    /\ raised' = NoError
    /\ UNCHANGED <<classifier, config, farm, memo, result, log, counts, farms, analyzer, session, chain>>

\* profiles = classifier.get_all_profiles()
GetAllProfiles ==
    /\ classifier # NoClassifier
    /\ LET r == get_all_profiles(classifier)
       IN  output' = [ kind |-> "profiles", value |-> r.value, shared |-> r.shared ]
    /\ op' = [ name |-> "get_all_profiles", arg |-> NoMode ]
    /\ raised' = NoError
    /\ UNCHANGED <<classifier, config, farm, memo, result, log, counts, farms, analyzer, session, chain>>

\* the caller removes the first element of the list get_all_profiles
\* returned, or appends an element to it; the classifier's list follows
\* when the two are the same object
EditReturnedList(edit) ==
    /\ output.kind = "profiles"
    /\ Len(output.value) = 6
    /\ LET edited == IF edit = "pop" THEN Tail(output.value)
                     ELSE Append(output.value, GroupProfile(IKM, None, None, None, None, None, None))
       IN  /\ output' = [ output EXCEPT !.value = edited ]
           /\ classifier' = IF output.shared THEN [ classifier EXCEPT !.profiles = edited ]
                            ELSE classifier
    /\ op' = [ name |-> "edit_returned_list", arg |-> edit ]
    /\ raised' = NoError
    /\ UNCHANGED <<config, farm, memo, result, log, counts, farms, analyzer, session, chain>>

NextProfiles ==
    \/ \E m \in ModeArgs : Construct(m)
    \/ \E v \in SampleVectors : NewFarm(v[1], v[2], v[3], v[4], v[5], v[6])
    \/ ClassifyFarm(FALSE)
    \/ ClassifyFarms
    \/ \E g \in Range(FarmGroup) : GetProfileForGroup(g)
    \/ GetAllProfiles
    \/ \E e \in { "pop", "append" } : EditReturnedList(e)

SpecProfiles == Init /\ [][NextProfiles]_vars

----------------------------------------------------------------------------
(* The filter chain on a loaded and classified record list *)

\* farms = classifier.classify_farms(IOUtils.dataframe_to_farm_data(df))
\* under the default configuration
InitFilter ==
    /\ classifier = FarmClassifier(NoMode, DefaultConfig).self
    /\ config = DefaultConfig
    /\ farm = FarmData(0, 0, 0, 0, 0, 0)
    /\ op = [ name |-> "classify_farms", arg |-> NoMode ]
    /\ result = NoResult
    /\ raised = NoError
    /\ log = "none"
    /\ counts = NoCounts
    /\ memo = NoMemo
    /\ farms \in { classify_farms(FarmClassifier(NoMode, DefaultConfig).self, l,
                                   DefaultConfig).farms : l \in ParsedLists(MaxFiltered) }
    /\ analyzer = NoAnalyzer
    /\ output = NoOutput
    /\ session = DataContext
    /\ chain = NoChain

\* filter = DataFilter(farms)
NewFilter ==
    /\ chain' = [ NoChain EXCEPT !.head = Some(DataFilter(farms)) ]
    /\ op' = [ name |-> "DataFilter", arg |-> NoMode ]
    /\ raised' = NoError
    /\ UNCHANGED <<classifier, config, farm, result, log, counts, memo, farms, analyzer,
                   output, session>>

\* filter = filter.<operation>(...): the call's outcome r on the filter at
\* the head of the chain; an exception leaves the head where it was
ApplyFilter(name, r) ==
    /\ chain' = [ head |-> IF r.raised = NoError THEN r.returned ELSE chain.head,
                  before |-> chain.head,
                  after |-> Some(r.self),
                  returned |-> r.returned,
                  fresh |-> r.fresh ]
    /\ op' = [ name |-> name, arg |-> NoMode ]
    /\ raised' = r.raised
    /\ UNCHANGED <<classifier, config, farm, result, log, counts, memo, farms, analyzer,
                   output, session>>

\* a filter exists and fewer than MaxChain filters have been applied
CanFilter == chain.head.some /\ Len(chain.head.value.filter_history) < MaxChain

TrimPercentile(column, lower_percentile, upper_percentile) ==
    /\ CanFilter
    /\ ApplyFilter("trim_percentile",
           trim_percentile(chain.head.value, column, lower_percentile, upper_percentile))

RemoveOutliers(column, method, threshold) ==
    /\ CanFilter
    /\ ApplyFilter("remove_outliers",
           remove_outliers(chain.head.value, column, method, threshold))

FilterByRange(column, min_value, max_value) ==
    /\ CanFilter
    /\ ApplyFilter("filter_by_range",
           filter_by_range(chain.head.value, column, min_value, max_value))

FilterByGroup(groups) ==
    /\ CanFilter
    /\ ApplyFilter("filter_by_group", filter_by_group(chain.head.value, groups))

ExcludeUnclassified ==
    /\ CanFilter
    /\ ApplyFilter("exclude_unclassified", exclude_unclassified(chain.head.value))

FilterCustom(name) ==
    /\ CanFilter
    /\ ApplyFilter("filter_custom", filter_custom(chain.head.value, name))

NextFilter ==
    \/ NewFilter
    \/ \E a \in PercentileArgs : TrimPercentile(a[1], a[2], a[3])
    \/ \E a \in OutlierArgs : RemoveOutliers(a[1], a[2], a[3])
    \/ \E a \in RangeArgs : FilterByRange(a[1], a[2], a[3])
    \/ \E g \in GroupArgs : FilterByGroup(g)
    \/ ExcludeUnclassified
    \/ \E n \in CustomFilters : FilterCustom(n)

SpecFilter == InitFilter /\ [][NextFilter]_vars

----------------------------------------------------------------------------
(* Vocabulary of the properties *)

\* slot k of a profile, in the order of the _create_profiles field list
Slot(p, k) ==
    CASE k = 1 -> p.female_dairy_cattle
      [] k = 2 -> p.female_cattle
      [] k = 3 -> p.calf_arrivals
      [] k = 4 -> p.calf_non_slaughter_leavings
      [] k = 5 -> p.female_slaughterings
      [] k = 6 -> p.young_slaughterings

Slots == 1..6

\* the profile accepts the vector: every slot is a wildcard or equal
SlotwiseMatch(p, v) == \A k \in Slots : Slot(p, k) = None \/ Slot(p, k) = v[k]

\* indices of the profiles of the classifier in use that accept the vector
Matching(v) == { i \in DOMAIN classifier.profiles : SlotwiseMatch(classifier.profiles[i], v) }

Least(S) == CHOOSE i \in S : \A j \in S : i <= j

Constructed == classifier # NoClassifier

\* the six categories in the order the specification fixes
CategoryOrder == << "Muku", "Muku_Amme", "Milchvieh", "BKMmZ", "BKMoZ", "IKM" >>

\* the five supported modes: six-strict, six-flex, four, five-strict, five-flex
SupportedModes == { "6-indicators", "6-indicators-flex", "4-indicators", "5-indicators", "5-indicators-flex" }

----------------------------------------------------------------------------
(* C1 *)

\* C1: in every mode and for every indicator vector, classify_farm returns
\* the category of the first profile, in table order, each of whose six
\* slots is a wildcard or equals the record's indicator, and returns None
\* exactly when no profile accepts the record.
C1_FirstMatchingProfile ==
    op.name = "classify_farm" =>
        LET M == Matching(Indicators(farm))
        IN  /\ (M = {}) <=> (result = NoGroup)
            /\ M # {} => result = classifier.profiles[Least(M)].group_name

\* a record accepted only through wildcards has been classified
C1_Witness ==
    /\ op.name = "classify_farm"
    /\ classifier.indicator_mode = "5-indicators-flex"
    /\ Indicators(farm) = <<1, 0, 0, 1, 1, 1>>
    /\ result = "Milchvieh"

----------------------------------------------------------------------------
(* C2 *)

\* C2: whatever the mode, the profile table of a constructed classifier has
\* exactly six profiles, one per category, in the order Muku, Muku_Amme,
\* Milchvieh, BKMmZ, BKMoZ, IKM.
C2_SixProfilesInOrder ==
    Constructed =>
        /\ Len(classifier.profiles) = 6
        /\ \A i \in 1..6 : classifier.profiles[i].group_name = CategoryOrder[i]
        /\ Cardinality({ classifier.profiles[i].group_name : i \in 1..6 }) = 6

C2_Witness ==
    /\ op.name = "__init__"
    /\ classifier.indicator_mode = "6-indicators-flex"
    /\ Len(classifier.profiles) = 6

----------------------------------------------------------------------------
(* C3 *)

\* the wildcard slots the mode table gives a category
ModeTableWildcards(mode, g) ==
    CASE mode = "6-indicators" -> {}
      [] mode = "6-indicators-flex" -> IF g = "Milchvieh" THEN {6} ELSE {}
      [] mode = "4-indicators" -> {5, 6}
      [] mode = "5-indicators" -> {5}
      [] mode = "5-indicators-flex" -> IF g = "Milchvieh" THEN {5, 6} ELSE {5}

\* C3: in every mode slots 1-4 of every profile are never wildcard, and the
\* wildcards on slots 5 and 6 are exactly those of the mode table.
C3_WildcardsOfModeTable ==
    Constructed =>
        \A i \in DOMAIN classifier.profiles :
            LET p == classifier.profiles[i]
            IN  /\ \A k \in 1..4 : Slot(p, k) # None
                /\ { k \in Slots : Slot(p, k) = None }
                     = ModeTableWildcards(classifier.indicator_mode, p.group_name)

C3_Witness ==
    /\ op.name = "__init__"
    /\ classifier.indicator_mode = "5-indicators-flex"
    /\ classifier.profiles[3].young_slaughterings = None
    /\ classifier.profiles[4].young_slaughterings # None

----------------------------------------------------------------------------
(* C4 *)

\* slots 1-4 the specification lists for a category
ListedPrefix(g) ==
    CASE g = "Muku" -> <<0, 0, 0, 0>>
      [] g = "Muku_Amme" -> <<0, 0, 1, 0>>
      [] g = "Milchvieh" -> <<1, 0, 0, 1>>
      [] g = "BKMmZ" -> <<1, 0, 1, 0>>
      [] g = "BKMoZ" -> <<1, 0, 0, 0>>
      [] g = "IKM" -> <<0, 1, 1, 0>>

\* C4: the fixed slot values of every profile are the same in all modes:
\* slots 1-4 are the listed prefix of the category, a fixed slot 5 is 0, a
\* fixed slot 6 is 0 for Milchvieh and 1 for the five other categories.
C4_FixedSlotValues ==
    Constructed =>
        \A i \in DOMAIN classifier.profiles :
            LET p == classifier.profiles[i]
            IN  /\ << Slot(p, 1), Slot(p, 2), Slot(p, 3), Slot(p, 4) >> = ListedPrefix(p.group_name)
                /\ Slot(p, 5) # None => Slot(p, 5) = 0
                /\ Slot(p, 6) # None =>
                       Slot(p, 6) = (IF p.group_name = "Milchvieh" THEN 0 ELSE 1)

C4_Witness ==
    /\ op.name = "__init__"
    /\ classifier.indicator_mode = "6-indicators"
    /\ \A i \in 1..6 : Slot(classifier.profiles[i], 5) = 0

----------------------------------------------------------------------------
(* C5 *)

\* the mode string the last constructor call worked with
RequestedMode == IF op.arg = NoMode THEN config.indicator_mode ELSE op.arg

\* C5: constructing a classifier with a mode string that is not one of the
\* five supported modes raises the configuration error (ValueError) whose
\* message lists the valid modes, and produces no classifier and no table.
C5_UnsupportedModeRaises ==
    (op.name = "__init__" /\ RequestedMode \notin SupportedModes) =>
        /\ raised.type = "ValueError"
        /\ Range(raised.valid_modes) = SupportedModes
        /\ Len(raised.valid_modes) = 5
        /\ classifier = NoClassifier
        /\ classifier.profiles = << >>

C5_Witness ==
    /\ op.name = "__init__"
    /\ op.arg = "six-strict"
    /\ raised.type = "ValueError"
    /\ raised.mode = "six-strict"
    /\ ~Constructed

----------------------------------------------------------------------------
(* C6 *)

\* C6: for a fixed mode and a fixed indicator vector classify_farm returns,
\* on every call, what an earlier call with that mode and vector returned,
\* whatever ran in between and whatever the record's group or the
\* show_unclassified_warnings flag is at either call.
C6_Deterministic ==
    ( /\ op.name = "classify_farm"
      /\ memo # NoMemo
      /\ memo.mode = classifier.indicator_mode
      /\ memo.ind = Indicators(farm) ) => result = memo.result

\* a second call, after the record was given a group by a pass in another
\* mode and the warning flag was switched
C6_Witness ==
    /\ op.name = "classify_farm"
    /\ memo.mode = classifier.indicator_mode
    /\ memo.ind = Indicators(farm)
    /\ memo.group = NoGroup
    /\ farm.group # NoGroup
    /\ memo.warn # config.show_unclassified_warnings
    /\ result = NoGroup
    /\ log = "warning"

----------------------------------------------------------------------------
(* C7 *)

\* C7: in every mode the four-slot prefixes of the profiles of two distinct
\* categories differ in at least one position.
C7_PrefixesDiffer ==
    Constructed =>
        \A i, j \in DOMAIN classifier.profiles :
            classifier.profiles[i].group_name # classifier.profiles[j].group_name =>
                \E k \in 1..4 : Slot(classifier.profiles[i], k) # Slot(classifier.profiles[j], k)

C7_Witness ==
    /\ op.name = "__init__"
    /\ classifier.indicator_mode = "4-indicators"
    /\ Cardinality({ classifier.profiles[i].group_name : i \in DOMAIN classifier.profiles }) = 6

----------------------------------------------------------------------------
(* C8 *)

\* the profile list rearranged by the permutation pi of its indices
Permuted(profiles, pi) == [ i \in DOMAIN profiles |-> profiles[pi[i]] ]

\* C8: in every mode, the wildcard modes included, every indicator vector
\* is accepted by at most one profile, and the result of classify_farm is
\* the same under every permutation of the profile list.
C8_AtMostOneProfile ==
    Constructed =>
        /\ Cardinality(Matching(Indicators(farm))) <= 1
        /\ op.name = "classify_farm" =>
               \A pi \in Permutations(DOMAIN classifier.profiles) :
                   first_match(Permuted(classifier.profiles, pi), farm, 1) = result

\* a record that only wildcards let through, classified in the widest mode
C8_Witness ==
    /\ op.name = "classify_farm"
    /\ classifier.indicator_mode = "4-indicators"
    /\ Indicators(farm) = <<1, 0, 0, 0, 1, 0>>
    /\ result = "BKMoZ"
    /\ Cardinality(Matching(Indicators(farm))) = 1

----------------------------------------------------------------------------
(* C9 *)

\* the record with slots 5 and 6 replaced
WithSlaughter(f, a, b) == [ f EXCEPT !.indicator_female_slaughterings = a, !.indicator_young_slaughterings = b ]

\* C9: in 4-indicators mode the result depends only on slots 1-4: every
\* record that agrees with the classified one on slots 1-4 gets the same
\* result; [0,0,0,0,0,0] and [0,0,0,0,1,1] are both Muku.
C9_FourModeIgnoresSlaughter ==
    (op.name = "classify_farm" /\ classifier.indicator_mode = "4-indicators") =>
        /\ \A a, b \in Bit :
               classify_farm(classifier, WithSlaughter(farm, a, b), config).result = result
        /\ Indicators(farm) \in { <<0, 0, 0, 0, 0, 0>>, <<0, 0, 0, 0, 1, 1>> } => result = "Muku"

C9_Witness ==
    /\ op.name = "classify_farm"
    /\ classifier.indicator_mode = "4-indicators"
    /\ Indicators(farm) = <<0, 0, 0, 0, 1, 1>>
    /\ result = "Muku"

----------------------------------------------------------------------------
(* C10 *)

\* the six patterns listed for the strict six-indicator mode
ListedPattern(g) ==
    CASE g = "Muku" -> <<0, 0, 0, 0, 0, 1>>
      [] g = "Muku_Amme" -> <<0, 0, 1, 0, 0, 1>>
      [] g = "Milchvieh" -> <<1, 0, 0, 1, 0, 0>>
      [] g = "BKMmZ" -> <<1, 0, 1, 0, 0, 1>>
      [] g = "BKMoZ" -> <<1, 0, 0, 0, 0, 1>>
      [] g = "IKM" -> <<0, 1, 1, 0, 0, 1>>

\* C10: in 6-indicators mode a record is classified iff its vector equals
\* one of the six listed patterns, and then as that pattern's category;
\* [1,0,0,1,0,0] is Milchvieh and [1,1,1,1,1,1] is unclassified.
C10_SixStrictExactPatterns ==
    (op.name = "classify_farm" /\ classifier.indicator_mode = "6-indicators") =>
        /\ (result # NoGroup) <=> (\E g \in Range(CategoryOrder) : ListedPattern(g) = Indicators(farm))
        /\ result # NoGroup => (result \in Range(CategoryOrder) /\ ListedPattern(result) = Indicators(farm))
        /\ Indicators(farm) = <<1, 0, 0, 1, 0, 0>> => result = "Milchvieh"
        /\ Indicators(farm) = <<1, 1, 1, 1, 1, 1>> => result = NoGroup

C10_Witness ==
    /\ op.name = "classify_farm"
    /\ classifier.indicator_mode = "6-indicators"
    /\ Indicators(farm) = <<1, 0, 0, 1, 0, 0>>
    /\ result = "Milchvieh"

----------------------------------------------------------------------------
(* C11 *)

\* C11: [1,0,0,1,0,1] is unclassified in 6-indicators mode and Milchvieh in
\* 6-indicators-flex mode, and it is the only vector on which a call in the
\* one mode and a call in the other return different results.
C11_StrictAndFlexDifferOnce ==
    ( /\ op.name = "classify_farm"
      /\ memo.mode = "6-indicators"
      /\ classifier.indicator_mode = "6-indicators-flex"
      /\ memo.ind = Indicators(farm) ) =>
        /\ (memo.result # result) <=> (Indicators(farm) = <<1, 0, 0, 1, 0, 1>>)
        /\ Indicators(farm) = <<1, 0, 0, 1, 0, 1>> =>
               (memo.result = NoGroup /\ result = "Milchvieh")

C11_Witness ==
    /\ op.name = "classify_farm"
    /\ memo.mode = "6-indicators"
    /\ classifier.indicator_mode = "6-indicators-flex"
    /\ memo.ind = Indicators(farm)
    /\ Indicators(farm) = <<1, 0, 0, 1, 0, 1>>
    /\ memo.result = NoGroup
    /\ result = "Milchvieh"

----------------------------------------------------------------------------
(* Vocabulary of the aggregation properties *)

\* the operations of the aggregator, construction included
AggregatorOps ==
    { "FarmAnalyzer", "get_group_counts", "calculate_group_statistics",
      "get_summary_by_group", "get_farms_by_group", "get_unclassified_farms" }

\* the records of the list whose assigned category is g
Members(g) == { i \in DOMAIN farms : farms[i].group = g }

\* the categories assigned to at least one record of the list
PresentCategories == { farms[i].group : i \in DOMAIN farms } \ { NoGroup }

RECURSIVE SumOver(_, _)
SumOver(f, S) == IF S = {} THEN 0
                 ELSE LET x == CHOOSE x \in S : TRUE IN f[x] + SumOver(f, S \ {x})

\* the k-th smallest of the values of field f over the records of I
Kth(I, f, k) ==
    CHOOSE x \in { farms[i][f] : i \in I } :
        /\ Cardinality({ i \in I : farms[i][f] < x }) < k
        /\ Cardinality({ i \in I : farms[i][f] <= x }) >= k

\* position of a category in the canonical order
Position(g) == CHOOSE k \in DOMAIN CategoryOrder : CategoryOrder[k] = g

----------------------------------------------------------------------------
(* C12 *)

\* C12: for any non-empty record list, get_group_counts returns a mapping
\* whose values (the per-category tallies and the Unclassified tally) are
\* non-negative integers that sum to the number of records.
C12_CountConservation ==
    (op.name = "get_group_counts" /\ farms # << >>) =>
        /\ raised = NoError
        /\ output.kind = "counts"
        /\ \A l \in DOMAIN output.value : output.value[l] \in Nat
        /\ SumOver(output.value, DOMAIN output.value) = Len(farms)

----------------------------------------------------------------------------
(* C14 *)

\* C14: handing the aggregator an empty record list raises ValueError at
\* construction: no analyzer object exists afterwards and no result, empty
\* or other, is returned.
C14_EmptyInputRaises ==
    (op.name \in AggregatorOps /\ farms = << >>) =>
        /\ raised = [ type |-> "ValueError",
                      message |-> "Cannot initialize analyzer with empty farms list" ]
        /\ analyzer = NoAnalyzer
        /\ output = NoOutput

\* statistics have been asked of an empty list, with a classifier at hand
C14_Witness ==
    /\ op.name = "calculate_group_statistics"
    /\ farms = << >>
    /\ Constructed
    /\ raised.type = "ValueError"
    /\ output = NoOutput

----------------------------------------------------------------------------
(* C15 *)

\* C15: on a non-empty list all of whose records have no category,
\* calculate_group_statistics raises nothing and returns no group, and
\* get_group_counts reports every record under "Unclassified".
C15_NoClassifiedRecords ==
    ( /\ op.name \in { "calculate_group_statistics", "get_group_counts" }
      /\ farms # << >>
      /\ PresentCategories = {} ) =>
        /\ raised = NoError
        /\ op.name = "calculate_group_statistics" =>
               output = [ kind |-> "statistics", value |-> << >> ]
        /\ op.name = "get_group_counts" =>
               output = [ kind |-> "counts",
                          value |-> [ l \in { "Unclassified" } |-> Len(farms) ] ]

----------------------------------------------------------------------------
(* C16 *)

\* C16: for every category present in the list, calculate_group_statistics
\* reports a group whose count is the number of records of that category
\* and whose min, max, mean and median of each numeric field are those of
\* exactly these records, the median being the middle value of an odd-sized
\* group and the average of the two middle values of an even-sized one.
C16_StatisticsOfEachCategory ==
    ( /\ op.name = "calculate_group_statistics"
      /\ op.arg = NoGroup
      /\ PresentCategories # {} ) =>
        /\ raised = NoError
        /\ output.kind = "statistics"
        /\ \A g \in PresentCategories :
             \E k \in DOMAIN output.value :
                LET row == output.value[k]
                    I == Members(g)
                    n == Cardinality(I)
                IN  /\ row.group = g
                    /\ row.count = n
                    /\ \A f \in DOMAIN row.stats :
                         LET st == row.stats[f]
                             total == SumOver([ i \in I |-> farms[i][f] ], I)
                         IN  /\ st.min = Minimum({ farms[i][f] : i \in I })
                             /\ st.max = Maximum({ farms[i][f] : i \in I })
                             /\ st.mean.num * n = st.mean.den * total
                             /\ IF n % 2 = 1
                                THEN st.median.num = st.median.den * Kth(I, f, (n + 1) \div 2)
                                ELSE 2 * st.median.num =
                                       st.median.den * (Kth(I, f, n \div 2) + Kth(I, f, n \div 2 + 1))

----------------------------------------------------------------------------
(* C17 *)

\* C17: when classify_farms returns, every record of the list carries the
\* category classify_farm gives it under the classifier's mode (that of
\* the first profile accepting it, None if there is none); a record no
\* profile accepts raises nothing and the records after it are classified
\* all the same; the two tallies sum to the number of records.
C17_BatchVisitsEveryRecord ==
    op.name = "classify_farms" =>
        /\ raised = NoError
        /\ \A i \in DOMAIN farms :
             LET M == Matching(Indicators(farms[i]))
             IN  farms[i].group = IF M = {} THEN NoGroup
                                  ELSE classifier.profiles[Least(M)].group_name
        /\ counts.classified_count = Cardinality({ i \in DOMAIN farms : farms[i].group # NoGroup })
        /\ counts.unclassified_count = Cardinality(Members(NoGroup))
        /\ counts.classified_count + counts.unclassified_count = Len(farms)

\* a record no profile accepts, followed by one that is classified
C17_Witness ==
    /\ op.name = "classify_farms"
    /\ Len(farms) = 2
    /\ Matching(Indicators(farms[1])) = {}
    /\ farms[1].group = NoGroup
    /\ farms[2].group = "Muku"
    /\ counts.classified_count = 1
    /\ counts.unclassified_count = 1

----------------------------------------------------------------------------
(* C18 *)

\* C18: no operation of the aggregator (construction, get_group_counts,
\* calculate_group_statistics, get_summary_by_group, get_farms_by_group,
\* get_unclassified_farms) changes any field of any record, and the
\* category of a record of the list changes only in a classify_farms step.
C18_AggregatorReadsOnly ==
    [][ /\ op'.name \in AggregatorOps => farms' = farms
        /\ (\E i \in DOMAIN farms \cap DOMAIN farms' : farms'[i].group # farms[i].group)
              => op'.name = "classify_farms" ]_vars

\* the aggregator has been run on a list holding a classified and an
\* unclassified record
C18_Witness ==
    /\ op.name = "get_summary_by_group"
    /\ Len(farms) = 2
    /\ farms[1].group = "Muku"
    /\ farms[2].group = NoGroup

----------------------------------------------------------------------------
(* C19 *)

\* C19: without a category argument, calculate_group_statistics returns
\* exactly one group per category present in the list, in the canonical
\* order Muku, Muku_Amme, Milchvieh, BKMmZ, BKMoZ, IKM whatever the order
\* of the records.  (Every label a record can carry is one of the six, so
\* the placement of other labels has no case.)
C19_CanonicalGroupOrder ==
    ( /\ op.name = "calculate_group_statistics"
      /\ op.arg = NoGroup
      /\ PresentCategories # {} ) =>
        /\ raised = NoError
        /\ output.kind = "statistics"
        /\ Len(output.value) = Cardinality(PresentCategories)
        /\ { output.value[k].group : k \in DOMAIN output.value } = PresentCategories
        /\ \A k, l \in DOMAIN output.value :
             k < l => Position(output.value[k].group) < Position(output.value[l].group)

----------------------------------------------------------------------------
(* C20 *)

\* C20: a numeric field for which no record of a group holds a value is
\* left out of that group's statistics: the result has no min, max, mean
\* or median for it, and no placeholder.
C20_FieldsWithoutValuesOmitted ==
    ( /\ op.name = "calculate_group_statistics"
      /\ PresentCategories # {}
      /\ op.arg \in PresentCategories \cup { NoGroup } ) =>
        /\ raised = NoError
        /\ output.kind = "statistics"
        /\ output.value # << >>
        /\ \A k \in DOMAIN output.value :
             \A f \in Range(NUMERIC_FIELDS) :
                (\A i \in Members(output.value[k].group) : f \notin DOMAIN farms[i])
                    => f \notin DOMAIN output.value[k].stats

----------------------------------------------------------------------------
(* C21 *)

\* C21: the mapping get_group_counts returns has the key "Unclassified"
\* exactly when some record has no category, with the number of such
\* records as its value, and has a category as key exactly when some
\* record is assigned to it.
C21_KeysOfTheTally ==
    (op.name = "get_group_counts" /\ farms # << >>) =>
        /\ output.kind = "counts"
        /\ ("Unclassified" \in DOMAIN output.value) <=> (Members(NoGroup) # {})
        /\ Members(NoGroup) # {} =>
               output.value["Unclassified"] = Cardinality(Members(NoGroup))
        /\ \A g \in Range(FarmGroup) : (g \in DOMAIN output.value) <=> (Members(g) # {})
        /\ raised = NoError

----------------------------------------------------------------------------
(* C29 *)

\* pairs << m, n >> of modes with n more permissive than m, along
\* 6-indicators -> 6-indicators-flex -> 5-indicators-flex -> 4-indicators
\* and 6-indicators -> 5-indicators -> 5-indicators-flex -> 4-indicators
MorePermissive ==
    { << "6-indicators", "6-indicators-flex" >>, << "6-indicators", "5-indicators" >>,
      << "6-indicators", "5-indicators-flex" >>, << "6-indicators", "4-indicators" >>,
      << "6-indicators-flex", "5-indicators-flex" >>, << "6-indicators-flex", "4-indicators" >>,
      << "5-indicators", "5-indicators-flex" >>, << "5-indicators", "4-indicators" >>,
      << "5-indicators-flex", "4-indicators" >> }

\* the six prefixes (slots 1-4) the profile tables define
ListedPrefixes == { ListedPrefix(g) : g \in Range(FarmGroup) }

\* C29: a vector a mode classifies as a category is classified as the same
\* category by every more permissive mode, and a vector whose slots 1-4
\* are none of the six defined prefixes is unclassified in every mode.
C29_ModesOnlyWiden ==
    op.name = "classify_farm" =>
        LET v == Indicators(farm)
        IN  /\ ( /\ memo.ind = v
                 /\ << memo.mode, classifier.indicator_mode >> \in MorePermissive
                 /\ memo.result \in Range(FarmGroup) ) => result = memo.result
            /\ << v[1], v[2], v[3], v[4] >> \notin ListedPrefixes => result = NoGroup

\* a vector classified in 5-indicators mode keeps its category in
\* 5-indicators-flex mode
C29_Witness ==
    /\ op.name = "classify_farm"
    /\ memo.ind = Indicators(farm)
    /\ memo.mode = "5-indicators"
    /\ classifier.indicator_mode = "5-indicators-flex"
    /\ Indicators(farm) = <<1, 0, 0, 0, 1, 1>>
    /\ memo.result = "BKMoZ"
    /\ result = "BKMoZ"

----------------------------------------------------------------------------
(* Vocabulary of the session properties *)

\* the query and analysis handlers of the session
QueryTools ==
    { "handle_query_farms", "handle_get_farm_details", "handle_calculate_statistics",
      "handle_compare_groups" }

\* the dictionary a handler returned reports an error
IsError(r) == "error" \in DOMAIN r

----------------------------------------------------------------------------
(* C22 *)

\* C22: a session operation called before its prerequisite returns an
\* error value, raises nothing and leaves the session as it was:
\* classify_farms without loaded data returns "No data loaded. Load data
\* first.", and the query and analysis handlers on a session that is not
\* classified return an error.
C22_ErrorBeforePrerequisite ==
    [][ /\ (op'.name = "handle_classify_farms" /\ ~session.data_loaded) =>
              /\ output' = [ success |-> FALSE, error |-> "No data loaded. Load data first." ]
              /\ raised' = NoError
              /\ session' = session
        /\ (op'.name \in QueryTools /\ ~session.classified) =>
              /\ IsError(output')
              /\ raised' = NoError
              /\ session' = session ]_vars

\* statistics have been asked of a session with data loaded, and farms
\* held, but not classified
C22_Witness ==
    /\ op.name = "handle_calculate_statistics"
    /\ session.data_loaded
    /\ session.farms.some
    /\ ~session.classified
    /\ output = NotClassifiedError

----------------------------------------------------------------------------
(* C23 *)

\* C23: a load_data call whose read fails returns success = False, raises
\* nothing and leaves raw_df, data_loaded, classified, farms and analyzer
\* of the session as they were.
C23_FailedLoadKeepsSession ==
    [][ (op'.name = "handle_load_data" /\ read_csv(op'.arg).raised # NoError) =>
            /\ output'.success = FALSE
            /\ raised' = NoError
            /\ session'.raw_df = session.raw_df
            /\ session'.data_loaded = session.data_loaded
            /\ session'.classified = session.classified
            /\ session'.farms = session.farms
            /\ session'.analyzer = session.analyzer ]_vars

\* a path that does not exist has been loaded into a session that holds
\* data and farms
C23_Witness ==
    /\ op.name = "handle_load_data"
    /\ op.arg = "missing.csv"
    /\ output = [ success |-> FALSE, error |-> "FileNotFoundError" ]
    /\ session.data_loaded
    /\ session.farms.some

----------------------------------------------------------------------------
(* C28 *)

\* C28: a successful load_data leaves the session unclassified, the
\* session becomes classified only by a successful classify_farms, and
\* every query and analysis handler called on an unclassified session
\* returns an error: the farms a session still holds from an earlier
\* dataset are not served.
C28_LoadResetsClassified ==
    [][ /\ (op'.name = "handle_load_data" /\ output'.success) => ~session'.classified
        /\ (~session.classified /\ session'.classified) =>
              (op'.name = "handle_classify_farms" /\ output'.success)
        /\ (op'.name \in QueryTools /\ ~session'.classified) => output' = NotClassifiedError ]_vars

\* after the farms of b.csv were parsed, a.csv has been loaded and the
\* farms queried
C28_Witness ==
    /\ op.name = "handle_query_farms"
    /\ session.raw_df = Some(FileRows("a.csv"))
    /\ session.farms.some
    /\ session.farms.value[1].year = 2021
    /\ output = NotClassifiedError

----------------------------------------------------------------------------
(* C25 *)

\* C25: whatever the order in which the records of the list are visited,
\* once every record has been visited each record has the category the
\* sequential pass of classify_farms gives it.
C25_OrderIndependent ==
    op.name = "classify_in_order" =>
        LET sequential == classify_farms(classifier,
                              [ i \in DOMAIN farms |-> [ farms[i] EXCEPT !.group = memo.ind[i] ] ],
                              config).farms
        IN  \A i \in DOMAIN farms : farms[i].group = sequential[i].group

\* two records, the second visited first: one is classified, the other
\* is accepted by no profile
C25_Witness ==
    /\ op.name = "classify_in_order"
    /\ op.arg = <<2, 1>>
    /\ farms[1].group = "Muku"
    /\ Matching(Indicators(farms[2])) = {}
    /\ farms[2].group = NoGroup

----------------------------------------------------------------------------
(* C26 *)

\* the operations of a classifier after its construction, and the edit of
\* a list get_all_profiles returned
ClassifierReaders ==
    { "classify_farm", "classify_farms", "get_profile_for_group", "get_all_profiles",
      "edit_returned_list" }

\* C26: classify_farm, classify_farms, get_profile_for_group and
\* get_all_profiles leave the classifier's mode and profile table as
\* construction made them, and so does removing from or adding to the
\* list get_all_profiles returned: classification afterwards is that of
\* the unchanged table.
C26_ClassifierImmutable ==
    [][ /\ op'.name \in ClassifierReaders => classifier' = classifier
        /\ (op'.name = "classify_farm" /\ output'.kind = "profiles") =>
              result' = classify_farm([ indicator_mode |-> classifier.indicator_mode,
                                        profiles |-> create_profiles(classifier.indicator_mode) ],
                                      farm, config).result ]_vars

\* a Muku record has been classified after the caller removed the Muku
\* profile from the list get_all_profiles returned
C26_Witness ==
    /\ op.name = "classify_farm"
    /\ output.kind = "profiles"
    /\ Len(output.value) = 5
    /\ output.value[1].group_name = "Muku_Amme"
    /\ result = "Muku"

----------------------------------------------------------------------------
(* C30 *)

\* C30: a pass of classify_farms writes every record's category without
\* reading the one it had: after the pass each record has the category of
\* the classifier of this pass (None when no profile of its table accepts
\* the record, whatever an earlier pass left), and a second pass with the
\* same classifier changes nothing.
C30_LastPassDecides ==
    [][ op'.name = "classify_farms" =>
          /\ farms' = classify_farms(classifier,
                          [ i \in DOMAIN farms |-> [ farms[i] EXCEPT !.group = NoGroup ] ],
                          config).farms
          /\ \A i \in DOMAIN farms' :
                 farms'[i].group = classify_farm(classifier, farms[i], config).result
          /\ op.name = "classify_farms" => farms' = farms ]_vars

\* a record an earlier pass made Milchvieh is unclassified after a pass in
\* 6-indicators mode
C30_Witness ==
    /\ op.name = "classify_farms"
    /\ classifier.indicator_mode = "6-indicators"
    /\ farms # << >>
    /\ memo.ind[1] = "Milchvieh"
    /\ farms[1].group = NoGroup

----------------------------------------------------------------------------
(* C24 *)

\* the names of the filter operations
FilterOps == { "trim_percentile", "remove_outliers", "filter_by_range", "filter_by_group",
               "exclude_unclassified", "filter_custom" }

\* a is b with some elements left out
RECURSIVE IsSubList(_, _)
IsSubList(a, b) ==
    IF a = << >> THEN TRUE
    ELSE IF b = << >> THEN FALSE
    ELSE IF Head(a) = Head(b) THEN IsSubList(Tail(a), Tail(b))
    ELSE IsSubList(a, Tail(b))

\* C24: every filter operation whose arguments it accepts, on a DataFilter
\* reached by a chain of filter operations, returns a DataFilter the call
\* created, whose farms are a sub-list of the receiver's farms, and leaves
\* the receiver's farms and filter history as they were.
C24_FilterReturnsNewSubList ==
    (op.name \in FilterOps /\ raised.type # "ValueError") =>
        /\ raised = NoError
        /\ chain.returned.some
        /\ chain.fresh
        /\ IsSubList(chain.returned.value.farms, chain.before.value.farms)
        /\ chain.after.value.farms = chain.before.value.farms
        /\ chain.after.value.filter_history = chain.before.value.filter_history

====
